---- MODULE Spec2Model ----
(***************************************************************************)
(* Verification model of the ANSI bitmap-font renderer "bit"               *)
(* (package ansifonts: options validation, kerning, line composition,     *)
(* block assembly, styling and shadow).                                    *)
(*                                                                         *)
(* Encoding of Go values:                                                  *)
(*   - a Go string is a sequence of one-character strings (its runes);     *)
(*     "#" stands for U+2588 FULL BLOCK, "^" for U+2580 UPPER HALF BLOCK,  *)
(*     "v" for U+2584 LOWER HALF BLOCK, ":" "%" "@" for the light, medium  *)
(*     and dark shade characters U+2591..U+2593;                           *)
(*   - a styled output row is a sequence of cells [ch, sgr]: the rune ch,  *)
(*     written as ESC[38;2;r;g;bm ch ESC[0m when sgr = <<r,g,b>> and bare  *)
(*     when sgr = <<>>;                                                    *)
(*   - float64 positions of the line composer are multiples of 0.5 and    *)
(*     are kept as integers in half columns; ScaleFactor is kept in        *)
(*     quarters (2 = 0.5, 4 = 1.0, 16 = 4.0), NaN is the value NaN.        *)
(***************************************************************************)
EXTENDS Integers, Sequences, FiniteSets, TLC

VARIABLES
    opts,        \* SpecValidate: the RenderOptions Validate is called on
    verr,        \* SpecValidate: Field of the returned error, "nil", or "none" before the call
    glyphA,      \* SpecKern: left glyph
    glyphB,      \* SpecKern: right glyph
    kern,        \* SpecKern: <<>> before the call, <<computeKerning(glyphA, glyphB)>> after
    text,        \* SpecRender / SpecCompose: the text argument
    fontData,    \* SpecRender / SpecCompose: the FontData argument
    options,     \* SpecRender / SpecCompose: the caller's RenderOptions value
    status,      \* "idle" before the call, "ok" after a return, "panic" after a run-time panic
    rendered,    \* rows returned by the call (<<>> before it)
    rangeOrder,  \* the order in which "range fontData.Characters" visits the keys in the next call
    renderedAgain, \* SpecRepeat: rows returned by the second call with the same arguments
    store,       \* SpecFavorites / SpecUI: m.store.Favorites of the favorites Manager
    disk,        \* SpecFavorites / SpecUI: the contents of favorites.json
    clock,       \* SpecFavorites / SpecUI: the last value time.Now() returned
    ret,         \* SpecFavorites: the last Manager call, its arguments and what it returned
    added,       \* SpecFavorites: the favorites the caller added and has not removed, with the IDs Add returned
    ui,          \* SpecUI: the model of the interactive UI
    store2,      \* SpecTwoManagers: m.store.Favorites of a second Manager on the same file
    export,      \* SpecExport: m.export of the model of the interactive UI
    files,       \* SpecExport: the files in the export directory, by name
    trace        \* SpecExport: the last key event and the calls of os.Stat and os.WriteFile it made

\* the variables of the specifications, by the part of the program they belong to
validateVars == <<opts, verr>>

kernVars == <<glyphA, glyphB, kern>>

renderVars == <<text, fontData, options, status, rendered, rangeOrder, renderedAgain>>

favVars == <<store, disk, clock, ret, added>>

uiVars == <<ui>>

twoVars == <<store2>>

exportVars == <<export, files, trace>>

vars == <<validateVars, kernVars, renderVars, favVars, uiVars, twoVars, exportVars>>

----------------------------------------------------------------------------
(* Generic helpers (Go builtins and package strings / utf8)                *)

max(a, b) == IF a >= b THEN a ELSE b

min(a, b) == IF a <= b THEN a ELSE b

Abs(n) == IF n < 0 THEN -n ELSE n

\* strings.Repeat(c, n) for a one-rune string c
Repeat(c, n) == [i \in 1..n |-> c]

\* utf8.RuneCountInString
RuneCount(s) == Len(s)

\* index of the last element of s that is not sp (0 if none)
LastNot(s, sp) ==
    LET I == {i \in 1..Len(s) : s[i] # sp}
    IN  IF I = {} THEN 0 ELSE CHOOSE i \in I : \A j \in I : j <= i

\* index of the first element of s that is not sp (0 if none)
FirstNot(s, sp) ==
    LET I == {i \in 1..Len(s) : s[i] # sp}
    IN  IF I = {} THEN 0 ELSE CHOOSE i \in I : \A j \in I : i <= j

\* strings.TrimRight(s, " ")
TrimRight(s) == SubSeq(s, 1, LastNot(s, " "))

\* strings.TrimSpace(s) on strings whose only white space is " "
TrimSpace(s) ==
    IF FirstNot(s, " ") = 0 THEN <<>> ELSE SubSeq(s, FirstNot(s, " "), LastNot(s, " "))

\* maximum of f[i] over a sequence of naturals, 0 when empty
SeqMax(f) ==
    IF Len(f) = 0 THEN 0 ELSE CHOOSE m \in {f[i] : i \in 1..Len(f)} : \A i \in 1..Len(f) : f[i] <= m

RECURSIVE Flatten(_)
Flatten(ss) == IF Len(ss) = 0 THEN <<>> ELSE Head(ss) \o Flatten(Tail(ss))

----------------------------------------------------------------------------
(* RenderOptions, DefaultRenderOptions, Validate  (ansifonts options file) *)

LeftAlign == 0
CenterAlign == 1
RightAlign == 2

UpDown == 0
DownUp == 1
LeftRight == 2
RightLeft == 3

SingleColor == 0
Gradient == 1
Rainbow == 2

LightShade == 0
MediumShade == 1
DarkShade == 2

MinCharSpacing == 0
MaxCharSpacing == 10
MinWordSpacing == 0
MaxWordSpacing == 20
MinLineSpacing == 0
MaxLineSpacing == 10
\* ScaleFactor bounds 0.5 and 4.0 in quarters
MinScaleFactor == 2
MaxScaleFactor == 16
MinShadowOffset == 0 - 5
MaxShadowOffset == 5

\* float64 NaN, a value outside the ordering of the other floats
NaN == 0 - 1000

\* Go's float64 comparisons: every comparison with NaN is false
FloatLess(x, y) == x # NaN /\ y # NaN /\ x < y

FloatGreater(x, y) == x # NaN /\ y # NaN /\ x > y

White == <<"#", "F", "F", "F", "F", "F", "F">>
Red == <<"#", "F", "F", "0", "0", "0", "0">>
Blue == <<"#", "0", "0", "0", "0", "f", "f">>
EmptyStr == <<>>

DigitChars == {"0", "1", "2", "3", "4", "5", "6", "7", "8", "9"}
UpperHexChars == {"A", "B", "C", "D", "E", "F"}
LowerHexChars == {"a", "b", "c", "d", "e", "f"}

isValidHexColor(color) ==
    IF Len(color) # 7 \/ color[1] # "#"
    THEN FALSE
    ELSE \A i \in 2..7 : color[i] \in DigitChars \cup UpperHexChars \cup LowerHexChars

DefaultRenderOptions ==
    [CharSpacing |-> 1,
     WordSpacing |-> 2,
     LineSpacing |-> 1,
     Alignment |-> CenterAlign,
     TextColor |-> White,
     GradientColor |-> EmptyStr,
     GradientDirection |-> UpDown,
     UseGradient |-> FALSE,
     ColorMode |-> SingleColor,
     RainbowColors |-> <<>>,
     RainbowFrame |-> 0,
     RainbowSpeed |-> 5,
     ScaleFactor |-> 4,
     ShadowEnabled |-> FALSE,
     ShadowHorizontalOffset |-> 0,
     ShadowVerticalOffset |-> 0,
     ShadowStyle |-> LightShade]

\* index of the first palette entry that is not a hex color (0 if none)
FirstBadRainbow(colors) ==
    LET I == {i \in 1..Len(colors) : ~isValidHexColor(colors[i])}
    IN  IF I = {} THEN 0 ELSE CHOOSE i \in I : \A j \in I : i <= j

\* a variant of OutOfRange that also rejects the upper bound itself
OutOfRangeUpperExclusive(v, lo, hi) == v < lo \/ v >= hi

\* the integer range test "v < Min || v > Max" of Validate
OutOfRange(v, lo, hi) == v < lo \/ v > hi

\* the Field of the error Validate returns, "nil" when it returns nil
ValidateField(o) ==
    IF OutOfRange(o.CharSpacing, MinCharSpacing, MaxCharSpacing) THEN "CharSpacing"
    ELSE IF OutOfRange(o.WordSpacing, MinWordSpacing, MaxWordSpacing) THEN "WordSpacing"
    ELSE IF OutOfRange(o.LineSpacing, MinLineSpacing, MaxLineSpacing) THEN "LineSpacing"
    ELSE IF FloatLess(o.ScaleFactor, MinScaleFactor) \/ FloatGreater(o.ScaleFactor, MaxScaleFactor)
         THEN "ScaleFactor"
    ELSE IF OutOfRange(o.ShadowHorizontalOffset, MinShadowOffset, MaxShadowOffset)
         THEN "ShadowHorizontalOffset"
    ELSE IF OutOfRange(o.ShadowVerticalOffset, MinShadowOffset, MaxShadowOffset)
         THEN "ShadowVerticalOffset"
    ELSE IF OutOfRange(o.Alignment, LeftAlign, RightAlign) THEN "Alignment"
    ELSE IF OutOfRange(o.GradientDirection, UpDown, RightLeft) THEN "GradientDirection"
    ELSE IF OutOfRange(o.ShadowStyle, LightShade, DarkShade) THEN "ShadowStyle"
    ELSE IF OutOfRange(o.ColorMode, SingleColor, Rainbow) THEN "ColorMode"
    ELSE IF ~isValidHexColor(o.TextColor) THEN "TextColor"
    ELSE IF o.UseGradient /\ ~isValidHexColor(o.GradientColor) THEN "GradientColor"
    ELSE IF o.ColorMode = Rainbow /\ Len(o.RainbowColors) > 0 /\ FirstBadRainbow(o.RainbowColors) # 0
         THEN "RainbowColors"
    ELSE "nil"

\* a variant of Validate that clamps the character spacing into its range
ValidateClamping(o) ==
    [err |-> ValidateField(o),
     opts |-> [o EXCEPT !.CharSpacing = max(MinCharSpacing, min(o.CharSpacing, MaxCharSpacing))]]

\* Validate has a pointer receiver: the result is the returned error and
\* the options as the call leaves them (it assigns to no field)
Validate(o) == [err |-> ValidateField(o), opts |-> o]

----------------------------------------------------------------------------
(* Kerning  (ansifonts/kerning.go)                                         *)

\* the rune with code 0
NUL == "nul"

\* effectively infinity in computeKerning
Infinity == 1000

\* "rowA[x] != ' ' && rowA[x] != 0"
IsInk(c) == c # " " /\ c # NUL

maxRowLen(rows) == SeqMax([i \in 1..Len(rows) |-> RuneCount(rows[i])])

normalizeGlyph(glyph, height) ==
    LET maxLen == maxRowLen(glyph)
    IN  [i \in 1..height |->
            IF i <= Len(glyph)
            THEN IF RuneCount(glyph[i]) < maxLen
                 THEN glyph[i] \o Repeat(" ", maxLen - RuneCount(glyph[i]))
                 ELSE glyph[i]
            ELSE Repeat(" ", maxLen)]

\* 0-based column of the rightmost ink of a row, -1 if none
RightmostInk(row) ==
    LET I == {x \in 0..(Len(row) - 1) : IsInk(row[x + 1])}
    IN  IF I = {} THEN 0 - 1 ELSE CHOOSE x \in I : \A z \in I : z <= x

\* 0-based column of the leftmost ink of a row, -1 if none
LeftmostInk(row) ==
    LET I == {x \in 0..(Len(row) - 1) : IsInk(row[x + 1])}
    IN  IF I = {} THEN 0 - 1 ELSE CHOOSE x \in I : \A z \in I : x <= z

SetMin(S) == CHOOSE x \in S : \A z \in S : x <= z

SetMax(S) == CHOOSE x \in S : \A z \in S : z <= x

\* a variant of computeKerning that always uses the bounding boxes
computeKerningBoundingBox(gA, gB) ==
    IF Len(gA) = 0 \/ Len(gB) = 0 THEN 0
    ELSE
      LET h == max(Len(gA), Len(gB))
          a == normalizeGlyph(gA, h)
          b == normalizeGlyph(gB, h)
          widthA == maxRowLen(a)
          rowsA == {y \in 1..h : RightmostInk(a[y]) # 0 - 1}
          rowsB == {y \in 1..h : LeftmostInk(b[y]) # 0 - 1}
      IN  IF widthA = 0 \/ rowsA = {} \/ rowsB = {} THEN 0
          ELSE 1 - ((widthA + SetMin({LeftmostInk(b[y]) : y \in rowsB}))
                      - SetMax({RightmostInk(a[y]) : y \in rowsA}))

computeKerning(gA, gB) ==
    IF Len(gA) = 0 \/ Len(gB) = 0 THEN 0
    ELSE
      LET h == max(Len(gA), Len(gB))
          a == normalizeGlyph(gA, h)
          b == normalizeGlyph(gB, h)
          widthA == maxRowLen(a)
          rowsA == {y \in 1..h : RightmostInk(a[y]) # 0 - 1}
          rowsB == {y \in 1..h : LeftmostInk(b[y]) # 0 - 1}
          both == rowsA \cap rowsB
          hasOverlap == both # {}
          maxAGlobal == IF rowsA = {} THEN 0 - 1 ELSE SetMax({RightmostInk(a[y]) : y \in rowsA})
          minBGlobal == IF rowsB = {} THEN Infinity ELSE SetMin({LeftmostInk(b[y]) : y \in rowsB})
      IN  IF widthA = 0 THEN 0
          ELSE IF hasOverlap
               THEN 1 - SetMin({Infinity} \cup
                                {(widthA + LeftmostInk(b[y])) - RightmostInk(a[y]) : y \in both})
               ELSE IF maxAGlobal # 0 - 1 /\ minBGlobal # Infinity
                    THEN 1 - ((widthA + minBGlobal) - maxAGlobal)
                    ELSE 0

----------------------------------------------------------------------------
(* SpecKern: computeKerning applied to every pair of small glyphs         *)

\* largest number of rows of a glyph
MaxGlyphH == 2
\* largest number of columns of a glyph row
MaxGlyphW == 2

RECURSIVE SeqsUpTo(_, _)
\* all sequences over S of length 0..n
SeqsUpTo(S, n) ==
    IF n = 0 THEN {<<>>}
    ELSE LET P == SeqsUpTo(S, n - 1)
         IN  P \cup {Append(p, x) : p \in {q \in P : Len(q) = n - 1}, x \in S}

GlyphRows == SeqsUpTo({" ", "#"}, MaxGlyphW)

Glyphs == SeqsUpTo(GlyphRows, MaxGlyphH)

\* no second Manager and no export
InitNoSecondManagerNoExport ==
    /\ store2 = <<>>
    /\ export = <<>>
    /\ files = <<>>
    /\ trace = <<>>

\* the specifications of the rendering library keep the favorites and the UI unused
InitNoFavoritesNoUI ==
    /\ InitNoSecondManagerNoExport
    /\ store = <<>>
    /\ disk = <<>>
    /\ clock = 0
    /\ ret = <<>>
    /\ added = <<>>
    /\ ui = <<>>

InitKernOther ==
    /\ InitNoFavoritesNoUI
    /\ opts = <<>>
    /\ verr = "none"
    /\ text = <<>>
    /\ fontData = <<>>
    /\ options = <<>>
    /\ status = "idle"
    /\ rendered = <<>>
    /\ rangeOrder = <<>>
    /\ renderedAgain = <<>>

InitKern ==
    /\ glyphA \in Glyphs
    /\ glyphB \in Glyphs
    /\ kern = <<>>
    /\ InitKernOther

\* k := computeKerning(glyphA, glyphB)
CallComputeKerning ==
    /\ kern = <<>>
    /\ kern' = <<computeKerning(glyphA, glyphB)>>
    /\ UNCHANGED <<twoVars, exportVars, glyphA, glyphB, validateVars, renderVars, favVars, uiVars>>

NextKern == CallComputeKerning

SpecKern == InitKern /\ [][NextKern]_vars

\* rows (1-based) in which both glyphs have ink
CommonInkRows(gA, gB) ==
    {y \in 1..min(Len(gA), Len(gB)) :
        (\E x \in 1..Len(gA[y]) : gA[y][x] # " ") /\ (\E x \in 1..Len(gB[y]) : gB[y][x] # " ")}

\* columns between A's rightmost ink and B's leftmost ink in row y when B
\* starts at column start (1 = adjacent cells)
InkDistance(gA, gB, y, start) ==
    LET lastA == CHOOSE x \in 1..Len(gA[y]) :
                    gA[y][x] # " " /\ \A z \in (x + 1)..Len(gA[y]) : gA[y][z] = " "
        firstB == CHOOSE x \in 1..Len(gB[y]) :
                    gB[y][x] # " " /\ \A z \in 1..(x - 1) : gB[y][z] = " "
    IN  (start + firstB) - lastA

\* C4: for glyphs with ink in a common row, B placed at column
\* width(A) + computeKerning(A, B) has its leftmost ink exactly 1 column
\* after A's rightmost ink in the tightest common row and at least 1 column
\* after it in every common row.
C4_KerningMakesTightestGapOne ==
    (kern # <<>> /\ CommonInkRows(glyphA, glyphB) # {}) =>
        LET start == maxRowLen(glyphA) + kern[1]
            rows == CommonInkRows(glyphA, glyphB)
        IN  /\ \A y \in rows : InkDistance(glyphA, glyphB, y, start) >= 1
            /\ \E y \in rows : InkDistance(glyphA, glyphB, y, start) = 1

\* a pair with two common ink rows of different tightness and a nonzero kerning
C4_Witness ==
    /\ kern # <<>>
    /\ Cardinality(CommonInkRows(glyphA, glyphB)) = 2
    /\ kern[1] < 0
    /\ \E y \in CommonInkRows(glyphA, glyphB) :
          InkDistance(glyphA, glyphB, y, maxRowLen(glyphA) + kern[1]) > 1

----------------------------------------------------------------------------
(* Fonts and glyph resolution  (ansifonts/render.go, renderTextWithFont)   *)
(* A FontData is [Name, IsNil, Characters]: Characters is the map from a  *)
(* character to its bitmap rows; IsNil tells a nil map from an empty one.  *)

\* ScaleFactor 1.0 in quarters
ScaleOne == 4

HalfPixelChars == {"^", "v"}

\* the text of the row returned for a font without character data
NoCharDataMessage ==
    <<"F", "o", "n", "t", " ", "h", "a", "s", " ", "n", "o", " ",
      "c", "h", "a", "r", "a", "c", "t", "e", "r", " ", "d", "a", "t", "a">>

\* the rows and the columns of a glyph repeated or selected to the ratio
\* scaleFactor (in quarters): the cell (y, x) of the result shows the cell
\* of the glyph at (y, x) divided by the ratio
Resample(bitmapLines, scaleFactor) ==
    [y \in 1..((Len(bitmapLines) * scaleFactor) \div 4) |->
        LET row == bitmapLines[(((y - 1) * 4) \div scaleFactor) + 1]
        IN  [x \in 1..((Len(row) * scaleFactor) \div 4) |->
                row[(((x - 1) * 4) \div scaleFactor) + 1]]]

\* scaleCharacter: scale factor 1.0 is the identity (the render
\* specifications keep ScaleFactor at 1.0); the other factors resample
scaleCharacter(bitmapLines, scaleFactor) ==
    CASE scaleFactor = ScaleOne -> bitmapLines
      [] OTHER -> Resample(bitmapLines, scaleFactor)

\* analyzeDescenderProperties: the map from a character to its
\* DescenderInfo; the glyphs of the fonts modelled here have no ink below
\* the shared baseline and get no entry
analyzeDescenderProperties(fd, scaleFactor) == <<>>

\* adjustCharacterForDescenders: the glyph shifted down by its offset
adjustCharacterForDescenders(lines, info, maxCharHeight) ==
    [i \in 1..info.VerticalOffset |-> Repeat(" ", maxRowLen(lines))] \o lines

\* characters with an entry in the font (none for a nil map)
FontChars(fd) == IF fd.IsNil THEN {} ELSE DOMAIN fd.Characters

\* strings.ContainsRune(line, r)
ContainsRune(line, r) == \E i \in 1..Len(line) : line[i] = r

DetectHalfPixelUsage(txt, fd, scaleFactor) ==
    IF Len(txt) = 0 THEN FALSE
    ELSE \E k \in 1..Len(txt) :
            /\ txt[k] \in FontChars(fd)
            /\ LET scaled == scaleCharacter(fd.Characters[txt[k]], scaleFactor)
               IN  \E y \in 1..Len(scaled) : \E hp \in HalfPixelChars : ContainsRune(scaled[y], hp)

RECURSIVE SetToSeq(_)
\* the elements of a finite set, each once, in one fixed order
SetToSeq(S) ==
    IF S = {} THEN <<>>
    ELSE LET x == CHOOSE y \in S : TRUE IN <<x>> \o SetToSeq(S \ {x})

RECURSIVE Orders(_)
\* every order in which a range over a map with key set S may visit the keys
Orders(S) ==
    IF S = {} THEN {<<>>}
    ELSE UNION {{<<x>> \o p : p \in Orders(S \ {x})} : x \in S}

RECURSIVE RangeMaxHeightLast(_, _, _, _)
\* a variant of RangeMaxHeight that assigns the height instead of taking the maximum
RangeMaxHeightLast(fd, scaleFactor, order, maxCharHeight) ==
    IF order = <<>> THEN maxCharHeight
    ELSE RangeMaxHeightLast(fd, scaleFactor, Tail(order),
                            Len(scaleCharacter(fd.Characters[Head(order)], scaleFactor)))

RECURSIVE RangeMaxHeight(_, _, _, _)
\* "for _, bitmapLines := range fontData.Characters": the loop over the
\* keys still to visit, in the order the runtime picked for this call,
\* maxCharHeight being the value so far
RangeMaxHeight(fd, scaleFactor, order, maxCharHeight) ==
    IF order = <<>> THEN maxCharHeight
    ELSE LET h == Len(scaleCharacter(fd.Characters[Head(order)], scaleFactor))
         IN  RangeMaxHeight(fd, scaleFactor, Tail(order),
                            IF h > maxCharHeight THEN h ELSE maxCharHeight)

\* "Find max character height"
MaxCharHeight(fd, scaleFactor) ==
    LET info == analyzeDescenderProperties(fd, scaleFactor)
        glyphHeight == RangeMaxHeight(fd, scaleFactor, rangeOrder, 0)
        heights == {glyphHeight}
                   \cup {info[c].TotalHeight + info[c].VerticalOffset : c \in DOMAIN info}
    IN  SetMax(heights)

\* the fallback characters "xM!" in the order they are tried
FallbackChars == <<"x", "M", "!">>

DefaultMissingCharWidth(fd) ==
    IF " " \in FontChars(fd) /\ Len(fd.Characters[" "]) > 0
    THEN RuneCount(fd.Characters[" "][1])
    ELSE LET found == {k \in 1..Len(FallbackChars) :
                          /\ FallbackChars[k] \in FontChars(fd)
                          /\ Len(fd.Characters[FallbackChars[k]]) > 0}
         IN  IF found = {} THEN 4
             ELSE RuneCount(fd.Characters[FallbackChars[SetMin(found)]][1])

\* "Filter out empty bitmap rows"
FilterEmptyRows(lines) == SelectSeq(lines, LAMBDA l : l # <<>>)

\* the cache entries charWidths / charHeights / charOffsets / adjustedBitmaps
\* that the first loop of renderTextWithFont stores for a character
ResolveGlyph(c, fd, scaleFactor) ==
    LET maxCharHeight == MaxCharHeight(fd, scaleFactor)
        info == analyzeDescenderProperties(fd, scaleFactor)
        asSpace == [width |-> 1, height |-> maxCharHeight, offset |-> 0, bitmap |-> <<Repeat(" ", 1)>>]
    IN  IF c = " " THEN asSpace
        ELSE IF c \in FontChars(fd)
        THEN LET filtered == FilterEmptyRows(scaleCharacter(fd.Characters[c], scaleFactor))
             IN  IF Len(filtered) = 0 THEN asSpace
                 ELSE IF c \in DOMAIN info
                 THEN LET adjusted == adjustCharacterForDescenders(filtered, info[c], maxCharHeight)
                      IN  [width |-> maxRowLen(adjusted), height |-> Len(adjusted), offset |-> 0,
                           bitmap |-> adjusted]
                 ELSE [width |-> maxRowLen(filtered), height |-> Len(filtered),
                       offset |-> IF Len(filtered) < maxCharHeight
                                  THEN (maxCharHeight - Len(filtered)) \div 2 ELSE 0,
                       bitmap |-> filtered]
        ELSE [width |-> DefaultMissingCharWidth(fd), height |-> maxCharHeight, offset |-> 0,
              bitmap |-> <<Repeat(" ", DefaultMissingCharWidth(fd))>>]

\* kerningCache[{l, r}] as the first loop leaves it: the entry is stored at
\* the first index i with runes[i] = l and runes[i+1] = r, when
\* adjustedBitmaps holds the characters of runes[1..i] only
KerningCache(runes, l, r, fd, scaleFactor) ==
    LET first == SetMin({i \in 1..(Len(runes) - 1) : runes[i] = l /\ runes[i + 1] = r})
        rightExists == \E j \in 1..first : runes[j] = r
    IN  IF l = " " \/ r = " " THEN 0
        ELSE IF ~rightExists THEN 0
        ELSE computeKerning(ResolveGlyph(l, fd, scaleFactor).bitmap,
                            ResolveGlyph(r, fd, scaleFactor).bitmap)

----------------------------------------------------------------------------
(* Word boundaries  (isSpaceAtWordBoundary and its two helpers)            *)

\* characters that take two bytes in UTF-8 ("E" stands for U+00E9)
TwoByteChars == {"E"}

\* len(string(r)): the UTF-8 length of a rune
Utf8Len(c) == IF c \in TwoByteChars THEN 2 ELSE 1

RECURSIVE ByteLen(_)
\* len(s) of a Go string: its length in bytes
ByteLen(s) == IF Len(s) = 0 THEN 0 ELSE Utf8Len(Head(s)) + ByteLen(Tail(s))

\* spaceIndex is 1-based here
getWordBeforeSpaceSequence(runes, spaceIndex) ==
    LET nonSp == {j \in 1..(spaceIndex - 1) : runes[j] # " "}
    IN  IF nonSp = {} THEN <<>>
        ELSE LET last == SetMax(nonSp)
                 sps == {j \in 1..last : runes[j] = " "}
                 start == IF sps = {} THEN 1 ELSE SetMax(sps) + 1
             IN  SubSeq(runes, start, last)

getWordAfterSpaceSequence(runes, spaceIndex) ==
    LET nonSp == {j \in (spaceIndex + 1)..Len(runes) : runes[j] # " "}
    IN  IF nonSp = {} THEN <<>>
        ELSE LET first == SetMin(nonSp)
                 sps == {j \in first..Len(runes) : runes[j] = " "}
                 end == IF sps = {} THEN Len(runes) ELSE SetMin(sps) - 1
             IN  SubSeq(runes, first, end)

\* a variant of isSpaceAtWordBoundary that takes single characters for words
isSpaceAtWordBoundaryAnyWord(runes, spaceIndex) ==
    IF spaceIndex < 1 \/ spaceIndex > Len(runes) THEN FALSE
    ELSE IF runes[spaceIndex] # " " THEN FALSE
    ELSE /\ ByteLen(getWordBeforeSpaceSequence(runes, spaceIndex)) > 0
         /\ ByteLen(getWordAfterSpaceSequence(runes, spaceIndex)) > 0

isSpaceAtWordBoundary(runes, spaceIndex) ==
    IF spaceIndex < 1 \/ spaceIndex > Len(runes) THEN FALSE
    ELSE IF runes[spaceIndex] # " " THEN FALSE
    ELSE /\ ByteLen(getWordBeforeSpaceSequence(runes, spaceIndex)) > 1
         /\ ByteLen(getWordAfterSpaceSequence(runes, spaceIndex)) > 1

----------------------------------------------------------------------------
(* Line composer  (renderTextWithFont, the row loop)                       *)
(* Positions are float64 multiples of 0.5 in the code; X2 names hold twice *)
(* the value.                                                              *)

\* a variant of Round2 that rounds every half down
Round2Floor(x2) == x2 \div 2

\* int(math.Round(x)) for x = x2 / 2: halves round away from zero
Round2(x2) ==
    IF x2 % 2 = 0 THEN x2 \div 2
    ELSE IF x2 > 0 THEN (x2 + 1) \div 2 ELSE (x2 - 1) \div 2

\* prevCharTotalAdvance (doubled) from runes[idx-1] to runes[idx] on output row i (0-based)
Advance2(runes, idx, i, G, K, baseCharSpacing, wordSpacing) ==
    IF runes[idx - 1] = " "
    THEN IF isSpaceAtWordBoundary(runes, idx - 1) THEN 1 + 2 * wordSpacing ELSE 1
    ELSE LET heightDiff == G[idx - 1].height - G[idx].height
             halfPixelAdjustment2 == IF heightDiff % 2 # 0 /\ i >= G[idx].height THEN 1 ELSE 0
         IN  IF baseCharSpacing = 0
             THEN 2 * G[idx - 1].width + 2 * K[idx - 1] + halfPixelAdjustment2
             ELSE 2 * G[idx - 1].width + 2 * K[idx - 1] + 2 * baseCharSpacing + halfPixelAdjustment2

RECURSIVE StartPosition2(_, _, _, _, _, _, _)
\* charStartPositions[idx] (doubled) on output row i
StartPosition2(runes, idx, i, G, K, baseCharSpacing, wordSpacing) ==
    IF idx = 1 THEN 0
    ELSE StartPosition2(runes, idx - 1, i, G, K, baseCharSpacing, wordSpacing)
         + Advance2(runes, idx, i, G, K, baseCharSpacing, wordSpacing)

\* the fragment of runes[idx] for output row i
Fragment(runes, idx, i, G, wordSpacing) ==
    IF runes[idx] = " "
    THEN IF isSpaceAtWordBoundary(runes, idx) THEN Repeat(" ", 1 + wordSpacing) ELSE Repeat(" ", 1)
    ELSE IF i >= 0 /\ i < Len(G[idx].bitmap) THEN G[idx].bitmap[i + 1] ELSE <<>>

\* "Ensure lineRunes has enough capacity" and "Place the fragment into lineRunes"
PlaceFragment(lineRunes, fragment, renderXOffset) ==
    LET requiredLength == renderXOffset + RuneCount(fragment)
        extended == IF Len(lineRunes) < requiredLength
                    THEN lineRunes \o Repeat(" ", requiredLength - Len(lineRunes))
                    ELSE lineRunes
    IN  [t \in 1..Len(extended) |->
            LET fragIdx == (t - 1) - renderXOffset
            IN  IF /\ fragIdx >= 0
                   /\ fragIdx < Len(fragment)
                   /\ (fragment[fragIdx + 1] # " " \/ extended[t] = " ")
                THEN fragment[fragIdx + 1]
                ELSE extended[t]]

RECURSIVE PlaceFrom(_, _, _, _, _, _, _)
\* the second pass from character idx on: st = [line, err2] holds lineRunes
\* and the doubled cumulativeError; P2 are the doubled start positions
PlaceFrom(runes, idx, i, G, P2, wordSpacing, st) ==
    IF idx > Len(runes) THEN st
    ELSE LET currentXOffset2 == P2[idx] + st.err2
             renderXOffset == Round2(currentXOffset2)
             fragment == Fragment(runes, idx, i, G, wordSpacing)
         IN  PlaceFrom(runes, idx + 1, i, G, P2, wordSpacing,
                       [line |-> PlaceFragment(st.line, fragment, renderXOffset),
                        err2 |-> st.err2 + (currentXOffset2 - 2 * renderXOffset)])

\* one output row of renderTextWithFont (i is 0-based), trailing spaces trimmed
ComposeRow(runes, i, G, K, baseCharSpacing, wordSpacing) ==
    LET P2 == [idx \in 1..Len(runes) |->
                  StartPosition2(runes, idx, i, G, K, baseCharSpacing, wordSpacing)]
    IN  TrimRight(PlaceFrom(runes, 1, i, G, P2, wordSpacing, [line |-> <<>>, err2 |-> 0]).line)

renderTextWithFont(txt, fd, baseCharSpacing, wordSpacing, scaleFactor) ==
    IF Len(txt) = 0 THEN <<>>
    ELSE LET maxCharHeight == MaxCharHeight(fd, scaleFactor)
         IN  IF maxCharHeight = 0 THEN <<NoCharDataMessage>>
             ELSE LET G == [idx \in 1..Len(txt) |-> ResolveGlyph(txt[idx], fd, scaleFactor)]
                      K == [idx \in 1..(Len(txt) - 1) |->
                               KerningCache(txt, txt[idx], txt[idx + 1], fd, scaleFactor)]
                  IN  [r \in 1..maxCharHeight |->
                          ComposeRow(txt, r - 1, G, K, baseCharSpacing, wordSpacing)]

----------------------------------------------------------------------------
(* Colors  (hexToRGB, rgbToHex, clamp, hexCharToInt)                       *)

UpperHexDigits == <<"0", "1", "2", "3", "4", "5", "6", "7", "8", "9", "A", "B", "C", "D", "E", "F">>
LowerHexDigits == <<"0", "1", "2", "3", "4", "5", "6", "7", "8", "9", "a", "b", "c", "d", "e", "f">>

clamp(value, minVal, maxVal) == max(minVal, min(value, maxVal))

hexCharToInt(c) ==
    IF \E k \in 1..16 : UpperHexDigits[k] = c
    THEN (CHOOSE k \in 1..16 : UpperHexDigits[k] = c) - 1
    ELSE IF \E k \in 1..16 : LowerHexDigits[k] = c
         THEN (CHOOSE k \in 1..16 : LowerHexDigits[k] = c) - 1
         ELSE 0

hexToRGB(hex) ==
    IF Len(hex) = 0 THEN <<0, 0, 0>>
    ELSE LET h == IF hex[1] = "#" THEN Tail(hex) ELSE hex
         IN  IF Len(h) # 6 THEN <<0, 0, 0>>
             ELSE <<clamp(hexCharToInt(h[1]) * 16 + hexCharToInt(h[2]), 0, 255),
                    clamp(hexCharToInt(h[3]) * 16 + hexCharToInt(h[4]), 0, 255),
                    clamp(hexCharToInt(h[5]) * 16 + hexCharToInt(h[6]), 0, 255)>>

\* fmt.Sprintf("#%02X%02X%02X", r, g, b) for channels in 0..255
rgbToHex(r, g, b) ==
    <<"#", UpperHexDigits[(r \div 16) + 1], UpperHexDigits[(r % 16) + 1],
           UpperHexDigits[(g \div 16) + 1], UpperHexDigits[(g % 16) + 1],
           UpperHexDigits[(b \div 16) + 1], UpperHexDigits[(b % 16) + 1]>>

DefaultRainbowColors ==
    <<<<"#", "F", "F", "0", "0", "0", "0">>,
      <<"#", "F", "F", "7", "F", "0", "0">>,
      <<"#", "F", "F", "F", "F", "0", "0">>,
      <<"#", "0", "0", "F", "F", "0", "0">>,
      <<"#", "0", "0", "F", "F", "F", "F">>,
      <<"#", "0", "0", "0", "0", "F", "F">>,
      <<"#", "8", "B", "0", "0", "F", "F">>>>

\* shadowStyleOptions, indexed from 0 in the code
shadowStyleOptions ==
    <<[Name |-> "Light Shade", Char |-> ":", Hex |-> EmptyStr],
      [Name |-> "Medium Shade", Char |-> "%", Hex |-> EmptyStr],
      [Name |-> "Dark Shade", Char |-> "@", Hex |-> EmptyStr]>>

\* Go's integer division and remainder truncate toward zero
TruncDiv(a, b) == IF (a >= 0) = (b >= 0) THEN Abs(a) \div Abs(b) ELSE 0 - (Abs(a) \div Abs(b))

TruncRem(a, b) == a - b * TruncDiv(a, b)

----------------------------------------------------------------------------
(* Rows of the block assembler and the compositor are sequences of cells.  *)

\* a bare space
Sp == [ch |-> " ", sgr |-> <<>>]

\* a Go string without escape sequences as a row of cells
AsCells(str) == [k \in 1..Len(str) |-> [ch |-> str[k], sgr |-> <<>>]]

\* ansiRegex.ReplaceAllString(s, ""): every ESC[...m sequence removed
stripANSI(row) == [k \in 1..Len(row) |-> [ch |-> row[k].ch, sgr |-> <<>>]]

\* strings.TrimRight(s, " ") on a row of cells (a colored cell ends in ESC[0m)
TrimRightCells(row) == SubSeq(row, 1, LastNot(row, Sp))

\* strings.TrimSpace(line) == ""
IsBlankLine(row) == \A k \in 1..Len(row) : row[k] = Sp

stripEmptyLines(lines) ==
    IF Len(lines) = 0 THEN lines
    ELSE LET nonEmpty == {k \in 1..Len(lines) : ~IsBlankLine(lines[k])}
         IN  IF nonEmpty = {} THEN <<>>
             ELSE SubSeq(lines, SetMin(nonEmpty), SetMax(nonEmpty))

\* the widest row of a block, escape sequences not counted
BlockWidth(block) == SeqMax([k \in 1..Len(block) |-> RuneCount(stripANSI(block[k]))])

\* a variant of LeftPadding that rounds the centering up
LeftPaddingCeil(lineWidth, maxTextLineWidth, alignment) ==
    IF alignment = LeftAlign THEN 0
    ELSE IF alignment = CenterAlign THEN (maxTextLineWidth - lineWidth + 1) \div 2
    ELSE IF alignment = RightAlign THEN maxTextLineWidth - lineWidth
    ELSE 0

\* the switch on alignment in applyAlignmentToTextLine
LeftPadding(lineWidth, maxTextLineWidth, alignment) ==
    IF alignment = LeftAlign THEN 0
    ELSE IF alignment = CenterAlign THEN (maxTextLineWidth - lineWidth) \div 2
    ELSE IF alignment = RightAlign THEN maxTextLineWidth - lineWidth
    ELSE 0

applyAlignmentToTextLine(lineRendered, maxTextLineWidth, alignment) ==
    IF Len(lineRendered) = 0 THEN lineRendered
    ELSE LET lineWidth == BlockWidth(lineRendered)
         IN  IF lineWidth >= maxTextLineWidth THEN lineRendered
             ELSE LET leftPadding == LeftPadding(lineWidth, maxTextLineWidth, alignment)
                  IN  [k \in 1..Len(lineRendered) |->
                          LET rowWidth == RuneCount(stripANSI(lineRendered[k]))
                              rightPaddingForThisRow == (maxTextLineWidth - rowWidth) - leftPadding
                          IN  Repeat(Sp, leftPadding) \o lineRendered[k]
                              \o (IF rightPaddingForThisRow > 0
                                  THEN Repeat(Sp, rightPaddingForThisRow) ELSE <<>>)]

----------------------------------------------------------------------------
(* Style and shadow compositor  (applyStylingAndShadow)                    *)

\* a variant of ResolveColorMode that does not look at the UseGradient flag
ResolveColorModeNoFlag(o) ==
    IF o.ColorMode = SingleColor /\ o.GradientColor # o.TextColor
    THEN Gradient
    ELSE o.ColorMode

\* "Determine color mode": the legacy UseGradient flag selects Gradient
ResolveColorMode(o) ==
    IF o.ColorMode = SingleColor /\ o.UseGradient /\ o.GradientColor # o.TextColor
    THEN Gradient
    ELSE o.ColorMode

\* the palette of the Rainbow mode
RainbowPalette(o) == IF Len(o.RainbowColors) > 0 THEN o.RainbowColors ELSE DefaultRainbowColors

\* the rune of the plain block at row py, column px (0-based), " " outside it
PlainAt(plainBlock, py, px) ==
    IF py >= 0 /\ py < Len(plainBlock)
    THEN IF px >= 0 /\ px < Len(plainBlock[py + 1]) THEN plainBlock[py + 1][px + 1].ch ELSE " "
    ELSE " "

\* a variant of CanvasBounds that extends the canvas to the right and to the
\* bottom only
CanvasBoundsPositiveOnly(plainBlock, o) ==
    LET shadowPixels == IF o.ShadowEnabled THEN o.ShadowHorizontalOffset ELSE 0
        verticalShadowPixels == IF o.ShadowEnabled THEN o.ShadowVerticalOffset ELSE 0
        blockHeight == Len(plainBlock)
        blockWidth == SeqMax([k \in 1..Len(plainBlock) |-> RuneCount(plainBlock[k])])
    IN  [minX |-> 0,
         maxX |-> IF shadowPixels > 0 THEN blockWidth + shadowPixels ELSE blockWidth,
         minY |-> 0,
         maxY |-> IF verticalShadowPixels > 0 THEN blockHeight + verticalShadowPixels ELSE blockHeight,
         shadowPixels |-> shadowPixels,
         verticalShadowPixels |-> verticalShadowPixels,
         blockHeight |-> blockHeight]

\* canvasMinX, canvasMaxX, canvasMinY, canvasMaxY and the offsets in force
CanvasBounds(plainBlock, o) ==
    LET shadowPixels == IF o.ShadowEnabled THEN o.ShadowHorizontalOffset ELSE 0
        verticalShadowPixels == IF o.ShadowEnabled THEN o.ShadowVerticalOffset ELSE 0
        blockHeight == Len(plainBlock)
        blockWidth == SeqMax([k \in 1..Len(plainBlock) |-> RuneCount(plainBlock[k])])
    IN  [minX |-> IF shadowPixels < 0 THEN shadowPixels ELSE 0,
         maxX |-> IF shadowPixels > 0 THEN blockWidth + shadowPixels ELSE blockWidth,
         minY |-> IF verticalShadowPixels < 0 THEN verticalShadowPixels ELSE 0,
         maxY |-> IF verticalShadowPixels > 0 THEN blockHeight + verticalShadowPixels ELSE blockHeight,
         shadowPixels |-> shadowPixels,
         verticalShadowPixels |-> verticalShadowPixels,
         blockHeight |-> blockHeight]

\* a variant of CanvasCell in which the shadow pass runs after the main pass
CanvasCellShadowLast(plainBlock, o, cb, y, x) ==
    LET mainY == y + cb.minY
        mainX == x + cb.minX
        shadowY == y - ((0 - cb.minY) + cb.verticalShadowPixels)
        shadowX == x - ((0 - cb.minX) + cb.shadowPixels)
    IN  IF o.ShadowEnabled /\ PlainAt(plainBlock, shadowY, shadowX) # " "
        THEN [char |-> shadowStyleOptions[o.ShadowStyle + 1].Char, isMain |-> FALSE,
              lineIdx |-> shadowY, charIdx |-> shadowX]
        ELSE IF PlainAt(plainBlock, mainY, mainX) # " "
        THEN [char |-> PlainAt(plainBlock, mainY, mainX), isMain |-> TRUE,
              lineIdx |-> mainY, charIdx |-> mainX]
        ELSE [char |-> " ", isMain |-> FALSE, lineIdx |-> 0, charIdx |-> 0]

\* canvas[y][x] after the shadow pass and the main pass (0-based y, x)
CanvasCell(plainBlock, o, cb, y, x) ==
    LET mainY == y + cb.minY
        mainX == x + cb.minX
        shadowY == y - ((0 - cb.minY) + cb.verticalShadowPixels)
        shadowX == x - ((0 - cb.minX) + cb.shadowPixels)
    IN  IF PlainAt(plainBlock, mainY, mainX) # " "
        THEN [char |-> PlainAt(plainBlock, mainY, mainX), isMain |-> TRUE,
              lineIdx |-> mainY, charIdx |-> mainX]
        ELSE IF o.ShadowEnabled /\ PlainAt(plainBlock, shadowY, shadowX) # " "
        THEN [char |-> shadowStyleOptions[o.ShadowStyle + 1].Char, isMain |-> FALSE,
              lineIdx |-> shadowY, charIdx |-> shadowX]
        ELSE [char |-> " ", isMain |-> FALSE, lineIdx |-> 0, charIdx |-> 0]

\* colorIdx of a main cell in Rainbow mode; negative when the sum is negative
RainbowColorIdx(o, cell) ==
    LET frameOffset == IF o.RainbowSpeed > 0 THEN TruncDiv(o.RainbowFrame, o.RainbowSpeed) ELSE 0
    IN  TruncRem(cell.charIdx + cell.lineIdx + frameOffset, Len(RainbowPalette(o)))

\* the gradient factor of a cell as a fraction <<numerator, denominator>>
GradientFactor(o, cell, x, blockHeight, canvasWidth) ==
    IF o.GradientDirection = UpDown
    THEN IF blockHeight > 1 THEN <<cell.lineIdx, blockHeight - 1>> ELSE <<0, 1>>
    ELSE IF o.GradientDirection = DownUp
    THEN IF blockHeight > 1 THEN <<(blockHeight - 1) - cell.lineIdx, blockHeight - 1>> ELSE <<0, 1>>
    ELSE IF o.GradientDirection = LeftRight
    THEN IF canvasWidth > 1 THEN <<x, canvasWidth - 1>> ELSE <<0, 1>>
    ELSE IF o.GradientDirection = RightLeft
    THEN IF canvasWidth > 1 THEN <<(canvasWidth - 1) - x, canvasWidth - 1>> ELSE <<1, 1>>
    ELSE <<0, 1>>

\* int(float64(start) + factor*float64(end-start))
Blend(start, end, factor) == TruncDiv(start * factor[2] + factor[1] * (end - start), factor[2])

\* cellColorHex of a non-space canvas cell whose palette index is in range
CellColorHex(o, cell, x, blockHeight, canvasWidth) ==
    LET colorMode == ResolveColorMode(o)
        start == hexToRGB(o.TextColor)
        end == hexToRGB(IF colorMode = Gradient THEN o.GradientColor ELSE EmptyStr)
        shadowStyleHex == shadowStyleOptions[o.ShadowStyle + 1].Hex
        shadowColorForStyle == IF shadowStyleHex # EmptyStr THEN shadowStyleHex ELSE o.TextColor
    IN  IF colorMode = Rainbow /\ cell.isMain
        THEN RainbowPalette(o)[RainbowColorIdx(o, cell) + 1]
        ELSE IF colorMode = Gradient
        THEN LET f == GradientFactor(o, cell, x, blockHeight, canvasWidth)
             IN  rgbToHex(clamp(Blend(start[1], end[1], f), 0, 255),
                          clamp(Blend(start[2], end[2], f), 0, 255),
                          clamp(Blend(start[3], end[3], f), 0, 255))
        ELSE IF cell.isMain THEN o.TextColor ELSE shadowColorForStyle

\* the call panics: a palette index below 0 ("index out of range")
StylingPanics(plainBlock, o) ==
    /\ Len(plainBlock) > 0
    /\ ResolveColorMode(o) = Rainbow
    /\ LET cb == CanvasBounds(plainBlock, o)
       IN  \E y \in 0..((cb.maxY - cb.minY) - 1) : \E x \in 0..((cb.maxX - cb.minX) - 1) :
              LET cell == CanvasCell(plainBlock, o, cb, y, x)
              IN  cell.char # " " /\ cell.isMain /\ RainbowColorIdx(o, cell) < 0

\* the rows applyStylingAndShadow returns when it does not panic
applyStylingAndShadow(plainBlock, o) ==
    IF Len(plainBlock) = 0 THEN plainBlock
    ELSE LET cb == CanvasBounds(plainBlock, o)
             canvasWidth == cb.maxX - cb.minX
             canvasHeight == cb.maxY - cb.minY
         IN  [r \in 1..canvasHeight |->
                TrimRightCells(
                  [k \in 1..canvasWidth |->
                      LET cell == CanvasCell(plainBlock, o, cb, r - 1, k - 1)
                      IN  IF cell.char = " " THEN Sp
                          ELSE [ch |-> cell.char,
                                sgr |-> hexToRGB(CellColorHex(o, cell, k - 1, cb.blockHeight,
                                                              canvasWidth))]])]

----------------------------------------------------------------------------
(* Block assembler  (RenderTextWithFont)                                   *)

NL == "\n"

RECURSIVE Split(_)
\* strings.Split(text, "\n")
Split(txt) ==
    LET nls == {k \in 1..Len(txt) : txt[k] = NL}
    IN  IF nls = {} THEN <<txt>>
        ELSE <<SubSeq(txt, 1, SetMin(nls) - 1)>> \o Split(SubSeq(txt, SetMin(nls) + 1, Len(txt)))

\* a variant of EffectiveOptions that never disables the shadow
EffectiveOptionsKeepShadow(txt, fd, o) == o

\* the options in force after the shadow compatibility check
EffectiveOptions(txt, fd, o) ==
    IF /\ o.ShadowEnabled
       /\ (o.ShadowHorizontalOffset # 0 \/ o.ShadowVerticalOffset # 0)
       /\ DetectHalfPixelUsage(txt, fd, o.ScaleFactor)
    THEN [o EXCEPT !.ShadowEnabled = FALSE]
    ELSE o

\* first pass: renderedTextLines, one block per input line; the block of
\* an empty input line is the single row ""
RenderedTextLines(textLines, fd, o) ==
    [k \in 1..Len(textLines) |->
        IF textLines[k] = <<>> THEN << <<>> >>
        ELSE LET lineRendered == renderTextWithFont(textLines[k], fd, o.CharSpacing,
                                                    o.WordSpacing, o.ScaleFactor)
             IN  stripEmptyLines([r \in 1..Len(lineRendered) |-> AsCells(lineRendered[r])])]

\* "len(lineRendered) == 1 && lineRendered[0] == """
IsEmptyLineBlock(block) == Len(block) = 1 /\ block[1] = <<>>

\* maxTextLineWidth after the first pass
MaxTextLineWidth(textLines, blocks) ==
    SeqMax([k \in 1..Len(blocks) |-> IF textLines[k] = <<>> THEN 0 ELSE BlockWidth(blocks[k])])

\* a variant of GapBefore that separates the blocks by one row too many
GapBeforeOneMore(i, allRenderedLines, o) ==
    IF i > 0 /\ Len(allRenderedLines) > 0 THEN Repeat(<<>>, o.LineSpacing + 1) ELSE <<>>

\* "Add configurable spacing between text lines": the rows put before the
\* block of line i (0-based)
GapBefore(i, allRenderedLines, o) ==
    IF i > 0 /\ Len(allRenderedLines) > 0 THEN Repeat(<<>>, o.LineSpacing) ELSE <<>>

\* a variant of EmptyLineRows that also emits a row for a leading empty line
EmptyLineRowsAlways(i) == << <<>> >>

\* the rows appended for the empty input line i (0-based)
EmptyLineRows(i) == IF i > 0 THEN << <<>> >> ELSE <<>>

RECURSIVE StackBlocks(_, _, _, _, _)
\* second pass from line k (1-based) on; all is allRenderedLines so far
StackBlocks(blocks, k, maxTextLineWidth, o, all) ==
    IF k > Len(blocks) THEN all
    ELSE IF IsEmptyLineBlock(blocks[k])
    THEN StackBlocks(blocks, k + 1, maxTextLineWidth, o, all \o EmptyLineRows(k - 1))
    ELSE LET alignedBlock == applyAlignmentToTextLine(blocks[k], maxTextLineWidth, o.Alignment)
             finalBlock == applyStylingAndShadow(alignedBlock, o)
         IN  StackBlocks(blocks, k + 1, maxTextLineWidth, o,
                         all \o GapBefore(k - 1, all, o) \o finalBlock)

\* a variant of PadToMaxWidth that leaves the rows as they are
PadToMaxWidthNot(allRenderedLines) == allRenderedLines

\* "Final pass to ensure all lines have the same width"
PadToMaxWidth(allRenderedLines) ==
    LET maxWidth == BlockWidth(allRenderedLines)
    IN  [k \in 1..Len(allRenderedLines) |->
            LET lineWidth == RuneCount(stripANSI(allRenderedLines[k]))
            IN  IF lineWidth < maxWidth
                THEN allRenderedLines[k] \o Repeat(Sp, maxWidth - lineWidth)
                ELSE allRenderedLines[k]]

\* "Validate font data": the font is rejected up front
NoFontData(fd) == fd.Name = "" \/ fd.IsNil

\* "Second pass: apply alignment, styling, and shadow to each text line's
\* block" and the final padding pass, over the blocks of the first pass
SecondPass(blocks, maxTextLineWidth, eff) ==
    IF \E k \in 1..Len(blocks) :
          /\ ~IsEmptyLineBlock(blocks[k])
          /\ StylingPanics(applyAlignmentToTextLine(blocks[k], maxTextLineWidth,
                                                    eff.Alignment), eff)
    THEN [panic |-> TRUE, rows |-> <<>>]
    ELSE [panic |-> FALSE,
          rows |-> PadToMaxWidth(StackBlocks(blocks, 1, maxTextLineWidth, eff, <<>>))]

\* "First pass: render each text line and find the maximum width for
\* alignment", then the passes over the rendered blocks
FirstPass(textLines, blocks, eff) ==
    SecondPass(blocks, MaxTextLineWidth(textLines, blocks), eff)

\* the passes of RenderTextWithFont under the options it ends up using
RenderLines(textLines, fd, eff) ==
    FirstPass(textLines, RenderedTextLines(textLines, fd, eff), eff)

\* the outcome of RenderTextWithFont: the rows it returns, or a panic
RenderTextWithFont(txt, fd, o) ==
    IF Len(txt) = 0 \/ NoFontData(fd) THEN [panic |-> FALSE, rows |-> <<>>]
    ELSE RenderLines(Split(txt), fd, EffectiveOptions(txt, fd, o))

----------------------------------------------------------------------------
(* SpecValidate: a caller builds a RenderOptions value field by field,    *)
(* starting from DefaultRenderOptions(), and calls Validate on it.        *)

\* number of fields a caller sets before validating
MaxChanged == 2

BadNoHash == <<"F", "F", "F", "F", "F", "F", "F">>
BadDigit == <<"#", "F", "F", "F", "F", "F", "G">>
BadShort == <<"#", "F", "F">>
BadLong == <<"#", "F", "F", "F", "F", "F", "F", "F">>

OptionFields ==
    {"CharSpacing", "WordSpacing", "LineSpacing", "Alignment", "TextColor", "GradientColor",
     "GradientDirection", "UseGradient", "ColorMode", "RainbowColors", "RainbowFrame",
     "RainbowSpeed", "ScaleFactor", "ShadowEnabled", "ShadowHorizontalOffset",
     "ShadowVerticalOffset", "ShadowStyle"}

\* values a caller may assign: both sides of every documented boundary
FieldValues(f) ==
    CASE f = "CharSpacing" -> {MinCharSpacing - 1, MinCharSpacing, MaxCharSpacing, MaxCharSpacing + 1}
      [] f = "WordSpacing" -> {MinWordSpacing - 1, MinWordSpacing, MaxWordSpacing, MaxWordSpacing + 1}
      [] f = "LineSpacing" -> {MinLineSpacing - 1, MinLineSpacing, MaxLineSpacing, MaxLineSpacing + 1}
      [] f = "ScaleFactor" -> {MinScaleFactor - 1, MinScaleFactor, MaxScaleFactor, MaxScaleFactor + 1, NaN}
      [] f = "ShadowHorizontalOffset" ->
            {MinShadowOffset - 1, MinShadowOffset, MaxShadowOffset, MaxShadowOffset + 1}
      [] f = "ShadowVerticalOffset" ->
            {MinShadowOffset - 1, MinShadowOffset, MaxShadowOffset, MaxShadowOffset + 1}
      [] f = "Alignment" -> {LeftAlign - 1, LeftAlign, RightAlign, RightAlign + 1}
      [] f = "GradientDirection" -> {UpDown - 1, UpDown, RightLeft, RightLeft + 1}
      [] f = "ShadowStyle" -> {LightShade - 1, LightShade, DarkShade, DarkShade + 1}
      [] f = "ColorMode" -> {SingleColor - 1, SingleColor, Gradient, Rainbow, Rainbow + 1}
      [] f = "TextColor" -> {White, Blue, EmptyStr, BadNoHash, BadDigit, BadLong}
      [] f = "GradientColor" -> {Red, EmptyStr, BadDigit, BadShort}
      [] f = "UseGradient" -> {TRUE, FALSE}
      [] f = "ShadowEnabled" -> {TRUE, FALSE}
      [] f = "RainbowColors" -> {<<>>, <<Red, Blue>>, <<Red, BadDigit>>, <<BadShort>>}
      [] f = "RainbowFrame" -> {0 - 1, 0, 1}
      [] f = "RainbowSpeed" -> {0 - 1, 0, 5}

ChangedFields(o) == {f \in OptionFields : o[f] # DefaultRenderOptions[f]}

InitOther ==
    /\ InitNoFavoritesNoUI
    /\ glyphA = <<>>
    /\ glyphB = <<>>
    /\ kern = <<>>
    /\ text = <<>>
    /\ fontData = <<>>
    /\ options = <<>>
    /\ status = "idle"
    /\ rendered = <<>>
    /\ rangeOrder = <<>>
    /\ renderedAgain = <<>>

InitValidate ==
    /\ opts = DefaultRenderOptions
    /\ verr = "none"
    /\ InitOther

\* the caller assigns one field of the options before validating
SetField ==
    /\ verr = "none"
    /\ \E f \in OptionFields : \E v \in FieldValues(f) :
          /\ opts[f] # v
          /\ Cardinality(ChangedFields([opts EXCEPT ![f] = v])) <= MaxChanged
          /\ opts' = [opts EXCEPT ![f] = v]
    /\ UNCHANGED <<twoVars, exportVars, verr, kernVars, renderVars, favVars, uiVars>>

\* err := opts.Validate()
CallValidate ==
    /\ verr = "none"
    /\ verr' = Validate(opts).err
    /\ opts' = Validate(opts).opts
    /\ UNCHANGED <<twoVars, exportVars, kernVars, renderVars, favVars, uiVars>>

NextValidate == SetField \/ CallValidate

SpecValidate == InitValidate /\ [][NextValidate]_vars

\* every field inside the domain the documentation gives for it
InDocumentedDomain(o) ==
    /\ o.CharSpacing \in 0..10
    /\ o.WordSpacing \in 0..20
    /\ o.LineSpacing \in 0..10
    /\ o.ScaleFactor # NaN /\ o.ScaleFactor >= 2 /\ o.ScaleFactor <= 16
    /\ o.ShadowHorizontalOffset \in (0 - 5)..5
    /\ o.ShadowVerticalOffset \in (0 - 5)..5
    /\ o.Alignment \in {LeftAlign, CenterAlign, RightAlign}
    /\ o.GradientDirection \in {UpDown, DownUp, LeftRight, RightLeft}
    /\ o.ShadowStyle \in {LightShade, MediumShade, DarkShade}
    /\ o.ColorMode \in {SingleColor, Gradient, Rainbow}
    /\ isValidHexColor(o.TextColor)
    /\ isValidHexColor(o.GradientColor)
    /\ \A i \in 1..Len(o.RainbowColors) : isValidHexColor(o.RainbowColors[i])

\* the domain Validate enforces: the gradient color counts only with
\* UseGradient, the palette only in Rainbow mode, and a NaN scale passes
InEnforcedDomain(o) ==
    /\ o.CharSpacing \in 0..10
    /\ o.WordSpacing \in 0..20
    /\ o.LineSpacing \in 0..10
    /\ o.ScaleFactor = NaN \/ (o.ScaleFactor >= 2 /\ o.ScaleFactor <= 16)
    /\ o.ShadowHorizontalOffset \in (0 - 5)..5
    /\ o.ShadowVerticalOffset \in (0 - 5)..5
    /\ o.Alignment \in {LeftAlign, CenterAlign, RightAlign}
    /\ o.GradientDirection \in {UpDown, DownUp, LeftRight, RightLeft}
    /\ o.ShadowStyle \in {LightShade, MediumShade, DarkShade}
    /\ o.ColorMode \in {SingleColor, Gradient, Rainbow}
    /\ isValidHexColor(o.TextColor)
    /\ o.UseGradient => isValidHexColor(o.GradientColor)
    /\ o.ColorMode = Rainbow => \A i \in 1..Len(o.RainbowColors) : isValidHexColor(o.RainbowColors[i])

C3_DefaultAcceptedAndUnmodified ==
    [][(verr = "none" /\ verr' # "none") =>
          /\ opts' = opts
          /\ (opts = DefaultRenderOptions => verr' = "nil")]_vars

\* Validate has returned nil on the untouched default options
C3_Witness == verr = "nil" /\ opts = DefaultRenderOptions

\* Validate has rejected options with an out-of-range character spacing
C3_WitnessRejected == verr = "CharSpacing" /\ opts.CharSpacing = MaxCharSpacing + 1

----------------------------------------------------------------------------
(* Inputs of the render specifications: fonts, texts, options              *)

\* a font whose Characters map is nil
FontNil == [Name |-> "nil", IsNil |-> TRUE, Characters |-> <<>>]

\* a font whose Characters map is empty but not nil
FontEmpty == [Name |-> "empty", IsNil |-> FALSE, Characters |-> <<>>]

\* full-block glyphs of different widths and heights, "b" with a blank
\* left column, "t" one row high, "i" with a blank middle row
FontPlain ==
    [Name |-> "plain", IsNil |-> FALSE,
     Characters |->
        ("a" :> << <<"#", "#">>, <<"#", " ">> >>) @@
        ("b" :> << <<" ", "#">>, <<" ", "#">> >>) @@
        ("c" :> << <<"#">>, <<"#", "#">> >>) @@
        ("d" :> << <<"#", "#">>, <<" ", "#">> >>) @@
        ("t" :> << <<"#">> >>)]

\* a font whose "a" holds half blocks and that defines a space glyph
FontHalf ==
    [Name |-> "half", IsNil |-> FALSE,
     Characters |->
        ("a" :> << <<"^", "#">>, <<"#", "v">> >>) @@
        ("b" :> << <<"#">>, <<"#">>, <<"#">> >>) @@
        ("E" :> << <<"#", " ", "#">> >>) @@
        (" " :> << <<" ", " ">> >>)]

\* a font without a space glyph whose "x" has a first row shorter than
\* its longest row
FontRagged ==
    [Name |-> "ragged", IsNil |-> FALSE,
     Characters |->
        ("a" :> << <<"#", "#">>, <<"#", " ">> >>) @@
        ("b" :> << <<" ", "#">>, <<" ", "#">> >>) @@
        ("x" :> << <<"#">>, <<"#", "#">> >>)]

InitRenderOther ==
    /\ InitNoFavoritesNoUI
    /\ opts = <<>>
    /\ verr = "none"
    /\ glyphA = <<>>
    /\ glyphB = <<>>
    /\ kern = <<>>

----------------------------------------------------------------------------
(* SpecCompose: renderTextWithFont applied to one line of text             *)

\* longest enumerated line
MaxLineLen == 3
\* largest base character spacing
MaxComposeCharSpacing == 1
\* largest word spacing
MaxComposeWordSpacing == 3

ComposeAlphabet == {"a", "b", "t", " ", "z", "E"}

\* lines longer than MaxLineLen: two-character tokens around one and two spaces
ComposeExtraLines ==
    {<<"a", "b", " ", "c", "d">>, <<"a", "b", " ", "b", "a">>, <<"a", "b", " ", " ", "c", "d">>,
     <<"a", "a", " ", "b">>, <<"E", " ", "a", "b">>, <<" ", " ", " ", " ", "a">>}

ComposeLines == (SeqsUpTo(ComposeAlphabet, MaxLineLen) \ {<<>>}) \cup ComposeExtraLines

InitCompose ==
    /\ text \in ComposeLines
    /\ fontData \in {FontPlain, FontHalf, FontRagged}
    /\ \E cs \in 0..MaxComposeCharSpacing : \E ws \in 0..MaxComposeWordSpacing :
          options = [DefaultRenderOptions EXCEPT !.CharSpacing = cs, !.WordSpacing = ws]
    /\ status = "idle"
    /\ rendered = <<>>
    /\ rangeOrder = SetToSeq(FontChars(fontData))
    /\ renderedAgain = <<>>
    /\ InitRenderOther

\* rows := renderTextWithFont(line, fontData, CharSpacing, float64(WordSpacing), ScaleFactor)
CallCompose ==
    /\ status = "idle"
    /\ rendered' = renderTextWithFont(text, fontData, options.CharSpacing, options.WordSpacing,
                                      options.ScaleFactor)
    /\ status' = "ok"
    /\ UNCHANGED <<twoVars, exportVars, validateVars, kernVars, text, fontData, options, rangeOrder, renderedAgain, favVars, uiVars>>

NextCompose == CallCompose

SpecCompose == InitCompose /\ [][NextCompose]_vars

----------------------------------------------------------------------------
(* SpecRender: a caller calls RenderTextWithFont once, with a text, a font *)
(* and options built on top of DefaultRenderOptions().                     *)

\* longest enumerated text
MaxTextLen == 3
RenderAlphabet == {"a", " ", NL}

\* texts longer than MaxTextLen: empty and blank lines between blocks of
\* different widths
RenderExtraTexts ==
    {<<"a", NL, NL, "b">>, <<"a", "b", NL, NL, "b">>, <<"a", NL, " ", NL, "b">>,
     <<NL, NL, "a", "b">>, <<"a", "a", "b", NL, "t">>, <<"a", "b", NL, "b", NL>>}

RenderTexts == SeqsUpTo(RenderAlphabet, MaxTextLen) \cup RenderExtraTexts

RenderFonts == {FontNil, FontEmpty, FontPlain, FontHalf}

\* the layouts the caller asks for
RenderLayouts(o) ==
    {[o EXCEPT !.Alignment = al, !.LineSpacing = ls] :
        al \in {CenterAlign, RightAlign}, ls \in {0, 2}}

\* the colorings the caller asks for: one color, a gradient, the default
\* rainbow at a positive and at a negative frame
RenderColorings(o) ==
    {o,
     [o EXCEPT !.ColorMode = Gradient, !.GradientColor = Red, !.GradientDirection = RightLeft],
     [o EXCEPT !.ColorMode = Rainbow, !.RainbowFrame = 7],
     [o EXCEPT !.ColorMode = Rainbow, !.RainbowColors = <<Red, Blue>>, !.RainbowFrame = 0 - 5]}

\* the shadows the caller asks for
RenderShadows(o) ==
    {o,
     [o EXCEPT !.ShadowEnabled = TRUE, !.ShadowHorizontalOffset = 2, !.ShadowVerticalOffset = 1],
     [o EXCEPT !.ShadowEnabled = TRUE, !.ShadowHorizontalOffset = 0 - 1,
               !.ShadowStyle = DarkShade]}

\* the options of the enumerated calls; all of them pass Validate
RenderOptionSets ==
    UNION {UNION {RenderShadows(c) : c \in RenderColorings(l)} :
              l \in RenderLayouts(DefaultRenderOptions)}

InitRender ==
    /\ text \in RenderTexts
    /\ fontData \in RenderFonts
    /\ options \in RenderOptionSets
    /\ status = "idle"
    /\ rendered = <<>>
    /\ rangeOrder = SetToSeq(FontChars(fontData))
    /\ renderedAgain = <<>>
    /\ InitRenderOther

\* rows := RenderTextWithFont(text, fontData, options); options is passed by value
CallRender ==
    /\ status = "idle"
    /\ LET res == RenderTextWithFont(text, fontData, options)
       IN  /\ status' = IF res.panic THEN "panic" ELSE "ok"
           /\ rendered' = res.rows
    /\ UNCHANGED <<twoVars, exportVars, validateVars, kernVars, text, fontData, options, rangeOrder, renderedAgain, favVars, uiVars>>

NextRender == CallRender

SpecRender == InitRender /\ [][NextRender]_vars

----------------------------------------------------------------------------
(* Properties of the line composer, checked under SpecCompose              *)

\* the glyph the font has for c holds ink
HasInkGlyph(fd, c) ==
    /\ c \in FontChars(fd)
    /\ \E y \in 1..Len(fd.Characters[c]) : \E x \in 1..Len(fd.Characters[c][y]) :
          fd.Characters[c][y][x] # " "

\* the letters the lines of the claim are written with
Letters == {"a", "b", "c", "d", "t", "z"}

\* two two-letter tokens around one space ("ab cd"), the second token with ink
IsTwoWordLine(txt, fd) ==
    /\ Len(txt) = 5
    /\ txt[3] = " "
    /\ \A k \in {1, 2, 4, 5} : txt[k] \in Letters
    /\ HasInkGlyph(fd, txt[4]) \/ HasInkGlyph(fd, txt[5])

\* two single letters around one space ("a b")
IsTwoLetterLine(txt) == Len(txt) = 3 /\ txt[2] = " " /\ txt[1] \in Letters /\ txt[3] \in Letters

\* width of the line composed from the state's text with word spacing w
ComposedWidth(w) ==
    maxRowLen(renderTextWithFont(text, fontData, options.CharSpacing, w, options.ScaleFactor))

\* C5: "ab cd" (two two-letter tokens around a space, in a font with ink
\* for the second token) composed with word spacing w is exactly w columns
\* wider than composed with word spacing 0; "a b" (single letters around
\* the space) has the same width for every word spacing.
C5_WordSpacingOnlyBetweenWords ==
    status = "ok" =>
        /\ IsTwoWordLine(text, fontData) =>
              maxRowLen(rendered) = ComposedWidth(0) + options.WordSpacing
        /\ IsTwoLetterLine(text) => maxRowLen(rendered) = ComposedWidth(0)

\* "ab cd" has been composed with word spacing 3 in the font that has all four glyphs
C5_Witness ==
    /\ status = "ok"
    /\ text = <<"a", "b", " ", "c", "d">>
    /\ fontData = FontPlain
    /\ options.WordSpacing = 3
    /\ maxRowLen(rendered) = ComposedWidth(0) + 3

----------------------------------------------------------------------------
(* Properties of RenderTextWithFont, checked under SpecRender              *)

\* C1 (as stated): rendering a non-empty text with a font without
\* character entries, nil map or empty map, returns no row at all.
C1_NoCharactersNoRows ==
    (status # "idle" /\ Len(text) > 0 /\ FontChars(fontData) = {}) =>
        (status = "ok" /\ rendered = <<>>)

\* C6: when shadow is enabled with a nonzero offset and the text has a
\* character whose glyph holds an upper-half or lower-half block, the call
\* returns exactly what it returns with shadow disabled, and the caller's
\* options keep their value.
C6_HalfBlockSuppressesShadow ==
    [][(status = "idle" /\ status' # "idle") =>
          /\ options' = options
          /\ (/\ options.ShadowEnabled
              /\ (options.ShadowHorizontalOffset # 0 \/ options.ShadowVerticalOffset # 0)
              /\ \E k \in 1..Len(text) :
                    /\ text[k] \in FontChars(fontData)
                    /\ \E y \in 1..Len(fontData.Characters[text[k]]) :
                          \E x \in 1..Len(fontData.Characters[text[k]][y]) :
                             fontData.Characters[text[k]][y][x] \in {"^", "v"})
             => LET off == RenderTextWithFont(text, fontData,
                                              [options EXCEPT !.ShadowEnabled = FALSE])
                IN  /\ (status' = "panic") = off.panic
                    /\ rendered' = off.rows]_vars

\* a text with a half-block glyph has been rendered with a shadow requested
C6_Witness ==
    /\ status = "ok"
    /\ fontData = FontHalf
    /\ \E k \in 1..Len(text) : text[k] = "a"
    /\ options.ShadowEnabled
    /\ options.ShadowHorizontalOffset = 2
    /\ \E r \in 1..Len(rendered) : \E k \in 1..Len(rendered[r]) : rendered[r][k].ch = "^"

\* C7 (as stated): for options that Validate accepts, whatever RainbowFrame
\* and RainbowSpeed are, RenderTextWithFont returns rows and never fails at
\* run time.
C7_NeverPanics ==
    (Validate(options).err = "nil") => status # "panic"

\* C10: all rows returned by one call have the same visible width
\* (characters counted after removing the color escape sequences).
C10_UniformVisibleWidth ==
    status = "ok" =>
        \A i \in 1..Len(rendered) : \A j \in 1..Len(rendered) :
            RuneCount(stripANSI(rendered[i])) = RuneCount(stripANSI(rendered[j]))

\* a render with a shadow-widened block, a blank spacing row and colored cells
C10_Witness ==
    /\ status = "ok"
    /\ options.ShadowEnabled
    /\ options.ShadowHorizontalOffset = 2
    /\ \E r \in 1..Len(rendered) : \E k \in 1..Len(rendered[r]) : rendered[r][k].ch = ":"
    /\ \E r \in 1..Len(rendered) : Len(rendered[r]) > 0 /\ IsBlankLine(rendered[r])

RECURSIVE ExpectedStack(_, _, _, _, _)
\* the rows output for the first k input lines when an empty first line
\* contributes firstEmpty blank rows, every other empty line one blank row,
\* and a non-empty line its block finals[k], preceded by lineSpacing blank
\* rows if any row precedes it
ExpectedStack(finals, lines, k, firstEmpty, lineSpacing) ==
    IF k = 0 THEN <<>>
    ELSE LET before == ExpectedStack(finals, lines, k - 1, firstEmpty, lineSpacing)
         IN  IF lines[k] = <<>>
             THEN before \o (IF k = 1 THEN Repeat(<<>>, firstEmpty) ELSE << <<>> >>)
             ELSE before \o (IF before # <<>> THEN Repeat(<<>>, lineSpacing) ELSE <<>>)
                         \o finals[k]

\* rows without their trailing spaces
TrimmedRows(rows) == [r \in 1..Len(rows) |-> TrimRightCells(rows[r])]

\* the returned rows, trailing padding aside, are the stack of the final
\* (aligned, styled, shadowed) line-blocks
StackedWith(firstEmpty) ==
    LET lines == Split(text)
        eff == EffectiveOptions(text, fontData, options)
        blocks == RenderedTextLines(lines, fontData, eff)
        maxWidth == MaxTextLineWidth(lines, blocks)
        finals == [k \in 1..Len(lines) |->
                     IF lines[k] = <<>> THEN <<>>
                     ELSE TrimmedRows(applyStylingAndShadow(
                              applyAlignmentToTextLine(blocks[k], maxWidth, eff.Alignment), eff))]
    IN  TrimmedRows(rendered)
          = ExpectedStack(finals, lines, Len(lines), firstEmpty, options.LineSpacing)

\* the call returned rows for a text and a font it does not reject up front
RenderedUsable == status = "ok" /\ Len(text) > 0 /\ ~(fontData.Name = "" \/ fontData.IsNil)

\* C8: under center alignment every row of a line-block narrower than the
\* widest line-block is left-padded with exactly
\* floor((maxWidth - lineWidth) / 2) spaces; without a shadow the returned
\* rows show the blocks at exactly these columns.
C8_CenterLeftPadding ==
    (RenderedUsable /\ options.Alignment = CenterAlign) =>
        LET lines == Split(text)
            eff == EffectiveOptions(text, fontData, options)
            blocks == RenderedTextLines(lines, fontData, eff)
            widths == [k \in 1..Len(lines) |->
                         IF lines[k] = <<>> THEN 0
                         ELSE LET b == blocks[k]
                              IN  SeqMax([r \in 1..Len(b) |-> Len(b[r])])]
            maxWidth == SeqMax(widths)
            pad == [k \in 1..Len(lines) |-> (maxWidth - widths[k]) \div 2]
            centered == [k \in 1..Len(lines) |->
                           IF lines[k] = <<>> THEN <<>>
                           ELSE LET b == blocks[k]
                                IN  [r \in 1..Len(b) |-> Repeat(Sp, pad[k]) \o b[r]]]
        IN  /\ \A k \in 1..Len(lines) :
                  (lines[k] # <<>> /\ widths[k] < maxWidth) =>
                      TrimmedRows(applyAlignmentToTextLine(blocks[k], maxWidth, CenterAlign))
                        = TrimmedRows(centered[k])
            /\ ~eff.ShadowEnabled =>
                  TrimmedRows([r \in 1..Len(rendered) |-> stripANSI(rendered[r])])
                    = ExpectedStack([k \in 1..Len(lines) |-> TrimmedRows(centered[k])],
                                    lines, Len(lines), 0, options.LineSpacing)

\* a narrower block has been centered under a wider one, the difference of
\* the widths being odd
C8_Witness ==
    /\ RenderedUsable
    /\ options.Alignment = CenterAlign
    /\ ~options.ShadowEnabled
    /\ Len(rendered) > 0
    /\ LET lines == Split(text)
           blocks == RenderedTextLines(lines, fontData, options)
           maxWidth == MaxTextLineWidth(lines, blocks)
       IN  \E k \in 1..Len(lines) :
              /\ lines[k] # <<>>
              /\ LET b == blocks[k]
                 IN  Len(b) > 0 /\ (maxWidth - BlockWidth(b)) \in {1, 3, 5}

\* C9 (as stated): line-blocks are stacked in input order with exactly
\* lineSpacing blank rows between consecutive non-empty line-blocks, and
\* every explicitly empty input line, the first one included, contributes
\* exactly one blank output row.
C9_EveryEmptyLineOneRow == RenderedUsable => StackedWith(1)

\* C9 (amended): line-blocks are stacked in input order; the block of a
\* non-empty input line is preceded by exactly lineSpacing blank rows when
\* any row was output before it; every explicitly empty input line other
\* than the first contributes exactly one blank row, an empty first line
\* contributes none.
C9_EmptyLineOneRowExceptFirst == RenderedUsable => StackedWith(0)

\* an empty first line, an empty second line and a block were stacked
\* with a line spacing of 2: one blank row, two rows of spacing, the block
C9_Witness ==
    /\ RenderedUsable
    /\ options.LineSpacing = 2
    /\ LET lines == Split(text)
       IN  /\ Len(lines) = 3
           /\ lines[1] = <<>>
           /\ lines[2] = <<>>
           /\ lines[3] # <<>>
    /\ Len(rendered) > 3
    /\ \A r \in 1..3 : IsBlankLine(rendered[r])
    /\ ~IsBlankLine(rendered[4])

----------------------------------------------------------------------------
(* SpecRepeat: a caller calls RenderTextWithFont twice with the same text, *)
(* font and options; the runtime picks the iteration order of the font's   *)
(* map anew for each call.                                                 *)

RepeatTexts ==
    {<<"a">>, <<"E">>, <<"a", "b">>, <<"b", " ", "E">>, <<"E", NL, "a">>, <<"z", "b">>}

RepeatFonts == {FontEmpty, FontHalf}

\* options with a gradient, a rainbow at an explicit frame, a shadow
RepeatOptionSets ==
    {DefaultRenderOptions,
     [DefaultRenderOptions EXCEPT !.ColorMode = Gradient, !.GradientColor = Red],
     [DefaultRenderOptions EXCEPT !.ColorMode = Rainbow, !.RainbowFrame = 7],
     [DefaultRenderOptions EXCEPT !.ShadowEnabled = TRUE, !.ShadowVerticalOffset = 1]}

InitRepeat ==
    /\ text \in RepeatTexts
    /\ fontData \in RepeatFonts
    /\ options \in RepeatOptionSets
    /\ status = "idle"
    /\ rendered = <<>>
    /\ rangeOrder \in Orders(FontChars(fontData))
    /\ renderedAgain = <<>>
    /\ InitRenderOther

\* rows := RenderTextWithFont(text, fontData, options); the next range over
\* the map may visit the keys in any order
CallFirst ==
    /\ status = "idle"
    /\ LET res == RenderTextWithFont(text, fontData, options)
       IN  /\ status' = IF res.panic THEN "panic" ELSE "ok"
           /\ rendered' = res.rows
    /\ rangeOrder' \in Orders(FontChars(fontData))
    /\ UNCHANGED <<twoVars, exportVars, validateVars, kernVars, text, fontData, options, renderedAgain, favVars, uiVars>>

\* again := RenderTextWithFont(text, fontData, options)
CallAgain ==
    /\ status = "ok"
    /\ LET res == RenderTextWithFont(text, fontData, options)
       IN  /\ status' = IF res.panic THEN "panic" ELSE "again"
           /\ renderedAgain' = res.rows
    /\ UNCHANGED <<twoVars, exportVars, validateVars, kernVars, text, fontData, options, rendered, rangeOrder, favVars, uiVars>>

NextRepeat == CallFirst \/ CallAgain

SpecRepeat == InitRepeat /\ [][NextRepeat]_vars

----------------------------------------------------------------------------
(* Properties of the canvas, checked under SpecRender on one-line texts    *)

\* the text is one line, rendered with the shadow in force
OneLineWithShadow ==
    /\ RenderedUsable
    /\ \A k \in 1..Len(text) : text[k] # NL
    /\ EffectiveOptions(text, fontData, options).ShadowEnabled

\* C12: with shadow enabled, every canvas cell at which the plain block has
\* a non-space character shows that character in the color of main text
\* (the text color, or the rainbow color of its own position), never the
\* shadow glyph or the shadow color, for every shadow offset.
C12_MainTextWinsOverShadow ==
    OneLineWithShadow =>
        LET plain == RenderedTextLines(<<text>>, fontData, options)[1]
            offX == IF options.ShadowHorizontalOffset < 0 THEN 0 - options.ShadowHorizontalOffset
                    ELSE 0
            offY == IF options.ShadowVerticalOffset < 0 THEN 0 - options.ShadowVerticalOffset
                    ELSE 0
            palette == IF options.RainbowColors = <<>> THEN DefaultRainbowColors
                       ELSE options.RainbowColors
            frame == IF options.RainbowSpeed > 0 THEN options.RainbowFrame \div options.RainbowSpeed
                     ELSE 0
        IN  \A y \in 1..Len(plain) : \A x \in 1..Len(plain[y]) :
                plain[y][x].ch # " " =>
                    LET cell == rendered[y + offY][x + offX]
                    IN  /\ cell.ch = plain[y][x].ch
                        /\ options.ColorMode = SingleColor => cell.sgr = hexToRGB(options.TextColor)
                        /\ (options.ColorMode = Rainbow /\ options.RainbowFrame >= 0) =>
                              cell.sgr = hexToRGB(palette[((((x - 1) + (y - 1)) + frame)
                                                           % Len(palette)) + 1])

\* a rainbow render in which the shadow of one ink cell falls on another ink cell
C12_Witness ==
    /\ OneLineWithShadow
    /\ options.ColorMode = Rainbow
    /\ LET plain == RenderedTextLines(<<text>>, fontData, options)[1]
       IN  \E y \in 1..Len(plain) : \E x \in 1..Len(plain[y]) :
              /\ plain[y][x].ch # " "
              /\ PlainAt(plain, (y - 1) - options.ShadowVerticalOffset,
                         (x - 1) - options.ShadowHorizontalOffset) # " "
    /\ \E r \in 1..Len(rendered) : \E k \in 1..Len(rendered[r]) : rendered[r][k].ch = "@"

----------------------------------------------------------------------------
(* SpecColor: RenderTextWithFont called with every combination of the      *)
(* color mode, the legacy UseGradient flag and the two colors.             *)

ColorTexts == {<<"a">>, <<"a", "b">>, <<"b", NL, "a">>}

ColorOptionSets ==
    {[DefaultRenderOptions EXCEPT !.ColorMode = cm, !.UseGradient = ug, !.TextColor = tc,
                                  !.GradientColor = gc, !.GradientDirection = gd,
                                  !.ShadowEnabled = sh, !.ShadowHorizontalOffset = 1] :
        cm \in {SingleColor, Gradient, Rainbow}, ug \in BOOLEAN, tc \in {White, Red},
        gc \in {EmptyStr, White, Red, Blue}, gd \in {UpDown, DownUp, LeftRight, RightLeft},
        sh \in BOOLEAN}

InitColor ==
    /\ text \in ColorTexts
    /\ fontData \in {FontPlain, FontHalf}
    /\ options \in ColorOptionSets
    /\ status = "idle"
    /\ rendered = <<>>
    /\ rangeOrder = SetToSeq(FontChars(fontData))
    /\ renderedAgain = <<>>
    /\ InitRenderOther

SpecColor == InitColor /\ [][NextRender]_vars

\* every colored cell of the rows has the color hex
SolidColor(rows, hex) ==
    \A r \in 1..Len(rows) : \A k \in 1..Len(rows[r]) :
        rows[r][k] # Sp => rows[r][k].sgr = hexToRGB(hex)

\* C13: when ColorMode is not Rainbow, UseGradient = true with a
\* GradientColor different from TextColor gives exactly the rows of the
\* same options with ColorMode = Gradient; with ColorMode = SingleColor and
\* UseGradient false or both colors equal, the rows are in the text color
\* throughout.
C13_LegacyFlagIsGradientMode ==
    status = "ok" =>
        /\ (options.ColorMode # Rainbow /\ options.UseGradient
            /\ options.GradientColor # options.TextColor) =>
              rendered = RenderTextWithFont(text, fontData,
                             [options EXCEPT !.ColorMode = Gradient, !.UseGradient = FALSE]).rows
        /\ (options.ColorMode = SingleColor
            /\ (~options.UseGradient \/ options.GradientColor = options.TextColor)) =>
              SolidColor(rendered, options.TextColor)

\* the legacy flag alone produced a two-color gradient
C13_Witness ==
    /\ status = "ok"
    /\ options.ColorMode = SingleColor
    /\ options.UseGradient
    /\ options.TextColor = White
    /\ options.GradientColor = Red
    /\ options.GradientDirection = UpDown
    /\ \E r \in 1..Len(rendered) : \E k \in 1..Len(rendered[r]) :
          rendered[r][k] # Sp /\ rendered[r][k].sgr = hexToRGB(Red)
    /\ \E r \in 1..Len(rendered) : \E k \in 1..Len(rendered[r]) :
          rendered[r][k] # Sp /\ rendered[r][k].sgr = hexToRGB(White)

----------------------------------------------------------------------------
(* Favorites: the Manager and the store file                               *)
(* A Favorite is a record of its JSON fields.  A Go string is a sequence   *)
(* of characters; InvalidByte is a byte that is not valid UTF-8 on its own *)
(* (the first byte of a two-byte rune cut off by a byte slice).            *)

InvalidByte == "xC3"

\* U+FFFD, the Unicode replacement rune
ReplacementRune == "uFFFD"

ErrNil == "nil"

ErrNotFound == "favorite not found"

\* the error of a failed file operation
ErrIO == "io error"

\* the error of json.Unmarshal on a file that is not a JSON document
ErrJSON == "unexpected end of JSON input"

\* fmt.Sprintf("fav_%d", nanos)
FavID(nanos) == <<"fav_", nanos>>

\* the fields of a Favorite that hold a Go string of any bytes (the ID and
\* the font name are ASCII and are written as they are)
FavoriteStringFields == {"Name", "Text"}

\* encoding/json writes a string coerced to valid UTF-8: every invalid
\* byte becomes U+FFFD
JSONString(str) == [i \in DOMAIN str |-> IF str[i] = InvalidByte THEN ReplacementRune ELSE str[i]]

\* the Favorite that json.Unmarshal reads back from what json.MarshalIndent
\* wrote for fav
JSONFavorite(fav) ==
    [f \in DOMAIN fav |-> IF f \in FavoriteStringFields THEN JSONString(fav[f]) ELSE fav[f]]

\* favorites.json: absent, a JSON document holding a list of favorites, or
\* a file cut short by a failed write
NoFile == [state |-> "absent", favorites |-> <<>>]

TruncatedFile == [state |-> "truncated", favorites |-> <<>>]

JSONFile(favs) == [state |-> "json", favorites |-> [i \in DOMAIN favs |-> JSONFavorite(favs[i])]]

\* what the file system does with the call of Save: the write succeeds,
\* the file cannot be opened (or its path cannot be found), or the write
\* fails after os.WriteFile truncated the file
SaveOutcomes == {"ok", "open fails", "write fails"}

Save(favs, file, outcome) ==
    CASE outcome = "ok"          -> [err |-> ErrNil, disk |-> JSONFile(favs)]
      [] outcome = "open fails"  -> [err |-> ErrIO, disk |-> file]
      [] outcome = "write fails" -> [err |-> ErrIO, disk |-> TruncatedFile]

Load(file) ==
    CASE file.state = "absent"    -> [err |-> ErrNil, favorites |-> <<>>]
      [] file.state = "truncated" -> [err |-> ErrJSON, favorites |-> <<>>]
      [] file.state = "json"      -> [err |-> ErrNil, favorites |-> file.favorites]

\* the index of the first favorite with the given ID, the last index when
\* none has it
IndexOfIDOrLast(favs, id) ==
    IF \E i \in 1..Len(favs) : favs[i].ID = id
    THEN CHOOSE i \in 1..Len(favs) : favs[i].ID = id /\ \A j \in 1..(i - 1) : favs[j].ID # id
    ELSE Len(favs)

\* the index of the first favorite with the given ID, 0 when none has it
\* (indices start at 1 here; the code starts at 0 and uses -1)
IndexOfID(favs, id) ==
    IF \E i \in 1..Len(favs) : favs[i].ID = id
    THEN CHOOSE i \in 1..Len(favs) : favs[i].ID = id /\ \A j \in 1..(i - 1) : favs[j].ID # id
    ELSE 0

\* Manager.Add; nowID and nowCreated are the two readings of time.Now()
Add(favs, file, fav, nowID, nowCreated, outcome) ==
    LET stamped  == [fav EXCEPT !.ID = FavID(nowID), !.CreatedAt = nowCreated]
        appended == Append(favs, stamped)
        saved    == Save(appended, file, outcome)
    IN  IF saved.err # ErrNil
        THEN [store |-> SubSeq(appended, 1, Len(appended) - 1), disk |-> saved.disk,
              id |-> <<>>, err |-> saved.err]
        ELSE [store |-> appended, disk |-> saved.disk, id |-> stamped.ID, err |-> ErrNil]

\* Manager.Get
Get(favs, id) ==
    LET idx == IndexOfID(favs, id)
    IN  IF idx = 0 THEN [fav |-> <<>>, err |-> ErrNotFound]
        ELSE [fav |-> favs[idx], err |-> ErrNil]

\* Manager.Remove
Remove(favs, file, id, outcome) ==
    LET idx == IndexOfID(favs, id)
    IN  IF idx = 0 THEN [store |-> favs, disk |-> file, err |-> ErrNotFound]
        ELSE LET removed == favs[idx]
                 without == SubSeq(favs, 1, idx - 1) \o SubSeq(favs, idx + 1, Len(favs))
                 saved   == Save(without, file, outcome)
             IN  IF saved.err # ErrNil
                 THEN [store |-> SubSeq(without, 1, idx - 1) \o <<removed>>
                                   \o SubSeq(without, idx, Len(without)),
                       disk |-> saved.disk, err |-> saved.err]
                 ELSE [store |-> without, disk |-> saved.disk, err |-> ErrNil]

\* Manager.List
List(favs) == favs

----------------------------------------------------------------------------
(* The interactive UI: the model value, its key handlers and Update         *)

TextInputPanel == 0
FontPanel == 1
SpacingPanel == 2
ColorPanel == 3
ScalePanel == 4
ShadowPanel == 5
BackgroundPanel == 6
AnimationPanel == 7
TotalPanels == 8

CharacterSpacingMode == 0
WordSpacingMode == 1
LineSpacingMode == 2
TotalSpacingModes == 3

TextEntryMode == 0
TextAlignmentMode == 1
TotalTextInputModes == 2

TextColorMode == 0
GradientColorMode == 1
GradientDirectionMode == 2
RainbowMode == 3
TotalColorSubModes == 4

HorizontalShadowMode == 0
VerticalShadowMode == 1
ShadowStyleMode == 2
TotalShadowSubModes == 3

TotalAlignments == 3

TotalGradientDirections == 4

\* TextScale; its ScaleOne is called TextScaleOne here
ScaleHalf == 0 - 1
TextScaleOne == 0
ScaleTwo == 1
ScaleFour == 2
MinScale == ScaleHalf
MaxScale == ScaleFour

DefaultTextScale == TextScaleOne
DefaultCharSpacing == 2
DefaultWordSpacing == 2
DefaultLineSpacing == 1
DefaultShadowPixels == 5

\* the names of colorOptions, indexed from 0 in the code
colorOptions ==
    <<"Red", "Green", "Yellow", "Blue", "Magenta", "Cyan", "White", "Bright Red", "Bright Green",
      "Bright Yellow", "Bright Blue", "Bright Magenta", "Bright Cyan", "Bright White">>

\* the Pixels of shadowPixelOptions, indexed from 0 in the code
shadowPixelOptions == [i \in 1..11 |-> i - 6]

\* the Pixels of verticalShadowPixelOptions
verticalShadowPixelOptions == [i \in 1..11 |-> i - 6]

\* the initial text
Hello == <<"H", "e", "l", "l", "o">>

NoTextOrFontsMessage == "No text or fonts available"

\* the fonts of the font list: in the first one "H" is drawn with half
\* blocks, in the second one every glyph is made of full blocks
UIFontHalfBlocks ==
    [Name |-> "halfblocks", IsNil |-> FALSE,
     Characters |->
        ("H" :> << <<"^", " ", "^">>, <<"#", "v", "#">> >>) @@
        ("a" :> << <<"#", "#">>, <<"#", " ">> >>)]

UIFontBlocks ==
    [Name |-> "blocks", IsNil |-> FALSE,
     Characters |->
        ("H" :> << <<"#", " ", "#">>, <<"#", "#", "#">> >>) @@
        ("a" :> << <<"#", "#">>, <<"#", " ">> >>)]

\* m.font.fonts, every font loadable
UIFonts == <<UIFontHalfBlocks, UIFontBlocks>>

isUpKey(txt) == txt = "up" \/ txt = "k"

isDownKey(txt) == txt = "down" \/ txt = "j"

RECURSIVE Join(_, _)
\* strings.Join(rows, sep)
Join(rows, sep) ==
    IF Len(rows) = 0 THEN <<>>
    ELSE IF Len(rows) = 1 THEN rows[1]
    ELSE rows[1] \o <<sep>> \o Join(Tail(rows), sep)

\* a Go index into a sequence
At(seq, i) == seq[i + 1]

getScaleFactorFloat(m) ==
    CASE m.scale.scale = ScaleHalf    -> 2
      [] m.scale.scale = TextScaleOne -> 4
      [] m.scale.scale = ScaleTwo     -> 8
      [] m.scale.scale = ScaleFour    -> 16
      [] OTHER                        -> 4

\* ansifonts.DetectHalfPixelUsage on the current text, font and scale
hasHalfPixels(m) ==
    DetectHalfPixelUsage(m.textInput.currentText, At(UIFonts, m.font.selectedFont),
                         getScaleFactorFloat(m))

\* the options renderText passes to RenderTextWithFont; the colors are
\* named by their index in colorOptions
UIRenderOptions(m) ==
    LET useGradient == m.color.gradientEnabled /\ m.color.gradientColor # m.color.textColor
    IN  [CharSpacing |-> m.spacing.charSpacing,
         WordSpacing |-> m.spacing.wordSpacing,
         LineSpacing |-> m.spacing.lineSpacing,
         Alignment |-> m.textInput.alignment,
         TextColor |-> m.color.textColor,
         GradientColor |-> m.color.gradientColor,
         GradientDirection |-> m.color.gradientDirection,
         UseGradient |-> useGradient,
         ColorMode |-> IF m.color.rainbowEnabled THEN Rainbow
                       ELSE IF useGradient THEN Gradient ELSE SingleColor,
         ScaleFactor |-> getScaleFactorFloat(m),
         ShadowEnabled |-> m.shadow.enabled,
         ShadowHorizontalOffset |-> m.shadow.horizontalOffset,
         ShadowVerticalOffset |-> m.shadow.verticalOffset,
         ShadowStyle |-> m.shadow.style]

\* renderText; renderedLines holds the arguments of the call of
\* RenderTextWithFont whose rows the code stores
renderText(m) ==
    IF Len(UIFonts) = 0 \/ m.textInput.currentText = <<>>
    THEN [m EXCEPT !.uiState.renderedLines = NoTextOrFontsMessage]
    ELSE [m EXCEPT
            !.shadow.showWarning =
                hasHalfPixels(m) /\ m.shadow.enabled
                /\ (m.shadow.horizontalOffset # 0 \/ m.shadow.verticalOffset # 0),
            !.uiState.renderedLines =
                [text |-> m.textInput.currentText,
                 font |-> At(UIFonts, m.font.selectedFont).Name,
                 options |-> UIRenderOptions(m)]]

updateShadowWarning(m) ==
    IF Len(UIFonts) = 0 \/ m.textInput.currentText = <<>>
    THEN [m EXCEPT !.shadow.showWarning = FALSE]
    ELSE [m EXCEPT !.shadow.showWarning =
                hasHalfPixels(m) /\ m.shadow.enabled
                /\ (m.shadow.horizontalOffset # 0 \/ m.shadow.verticalOffset # 0)]

updateCurrentTextFromRows(m) == [m EXCEPT !.textInput.currentText = Join(m.textInput.textRows, NL)]

\* the model before InitialModel renders the initial text
InitialFields ==
    [textInput |-> [input |-> [focused |-> FALSE, value |-> <<>>],
                    currentText |-> Hello,
                    textRows |-> <<Hello>>,
                    currentRow |-> 0,
                    alignment |-> CenterAlign,
                    mode |-> TextEntryMode],
     font |-> [selectedFont |-> 0],
     spacing |-> [charSpacing |-> DefaultCharSpacing, wordSpacing |-> DefaultWordSpacing,
                  lineSpacing |-> DefaultLineSpacing, mode |-> CharacterSpacingMode],
     color |-> [textColor |-> 6, gradientColor |-> 6, gradientEnabled |-> FALSE,
                gradientDirection |-> UpDown, rainbowEnabled |-> FALSE, subMode |-> TextColorMode],
     scale |-> [scale |-> DefaultTextScale],
     shadow |-> [enabled |-> FALSE, horizontalOffset |-> 0, verticalOffset |-> 0,
                 horizontalIndex |-> DefaultShadowPixels, verticalIndex |-> 5, style |-> 0,
                 showWarning |-> FALSE, subMode |-> HorizontalShadowMode],
     export |-> [active |-> FALSE],
     favorites |-> [active |-> FALSE, showNamePrompt |-> FALSE, selectedIndex |-> 0,
                    nameInput |-> [focused |-> FALSE, value |-> <<>>]],
     uiState |-> [focusedPanel |-> TextInputPanel, renderedLines |-> <<>>]]

InitialModel == renderText(updateCurrentTextFromRows(InitialFields))

isInputMode(m) ==
    m.uiState.focusedPanel = TextInputPanel /\ m.textInput.mode = TextEntryMode
    /\ m.textInput.input.focused

\* the text input's Update for a key that types the character c at the
\* cursor; the texts typed here hold one letter only, so that the place of
\* the cursor does not show
TypeInto(input, c) == [input EXCEPT !.value = Append(input.value, c)]

\* the color panel's line for the current sub-mode
colorContent(m) ==
    IF m.color.subMode = TextColorMode THEN At(colorOptions, m.color.textColor)
    ELSE IF m.color.subMode = GradientColorMode
         THEN IF m.color.gradientEnabled THEN At(colorOptions, m.color.gradientColor) ELSE "None"
    ELSE IF m.color.subMode = GradientDirectionMode THEN m.color.gradientDirection
    ELSE IF m.color.rainbowEnabled THEN "On" ELSE "Off"

resetConfirmations(m) == [m EXCEPT !.shadow.showWarning = FALSE]

handleMultiRowNavigation(m, direction) ==
    LET row   == m.textInput.currentRow
        saved == [m.textInput.textRows EXCEPT ![row + 1] = m.textInput.input.value]
        moved ==
            IF isUpKey(direction)
            THEN IF row > 0
                 THEN [m EXCEPT !.textInput.textRows = saved,
                                !.textInput.currentRow = row - 1,
                                !.textInput.input.value = At(saved, row - 1)]
                 ELSE m
            ELSE IF isDownKey(direction)
            THEN IF row < Len(saved) - 1
                 THEN [m EXCEPT !.textInput.textRows = saved,
                                !.textInput.currentRow = row + 1,
                                !.textInput.input.value = At(saved, row + 1)]
                 ELSE [m EXCEPT !.textInput.textRows = Append(saved, <<>>),
                                !.textInput.currentRow = row + 1,
                                !.textInput.input.value = <<>>]
            ELSE m
    IN  renderText(updateCurrentTextFromRows(moved))

handleTextAlignment(m, direction) ==
    renderText([m EXCEPT !.textInput.alignment =
        IF isUpKey(direction)
        THEN (m.textInput.alignment - 1 + TotalAlignments) % TotalAlignments
        ELSE (m.textInput.alignment + 1) % TotalAlignments])

handleTextInputToggle(m) ==
    IF m.textInput.input.focused
    THEN renderText(updateCurrentTextFromRows(
            [m EXCEPT !.textInput.textRows[m.textInput.currentRow + 1] = m.textInput.input.value,
                      !.textInput.input.focused = FALSE]))
    ELSE IF m.textInput.currentRow < Len(m.textInput.textRows)
         THEN LET isInitialPlaceholder ==
                      /\ Len(m.textInput.textRows) = 1
                      /\ m.textInput.textRows[1] = Hello
                      /\ m.textInput.currentRow = 0
              IN  [m EXCEPT !.textInput.input.focused = TRUE,
                            !.textInput.input.value =
                                IF isInitialPlaceholder THEN <<>>
                                ELSE At(m.textInput.textRows, m.textInput.currentRow)]
         ELSE [m EXCEPT !.textInput.input.focused = TRUE]

\* handleTextPanelUpdate for the keys handleUpDownKeys passes to it
handleTextPanelUpdate(m, key) ==
    IF key \in {"up", "down"}
    THEN IF m.textInput.mode = TextEntryMode /\ m.textInput.input.focused
         THEN handleMultiRowNavigation(m, key)
         ELSE IF m.textInput.mode = TextAlignmentMode THEN handleTextAlignment(m, key)
         ELSE m
    ELSE m

handleFontPanelUpdate(m, key) ==
    IF isUpKey(key)
    THEN renderText([m EXCEPT !.font.selectedFont = (@ - 1 + Len(UIFonts)) % Len(UIFonts)])
    ELSE IF isDownKey(key)
    THEN renderText([m EXCEPT !.font.selectedFont = (@ + 1) % Len(UIFonts)])
    ELSE m

\* adjustCharSpacing, adjustWordSpacing, adjustLineSpacing: the value moved
\* by direction and kept within its bounds
adjustSpacing(value, direction, minVal, maxVal) ==
    IF value + direction > maxVal THEN maxVal
    ELSE IF value + direction < minVal THEN minVal
    ELSE value + direction

handleSpacingPanelUpdate(m, key) ==
    IF key \in {"up", "down", "k", "j"}
    THEN LET direction == IF isUpKey(key) THEN 1 ELSE 0 - 1
         IN  renderText(
                CASE m.spacing.mode = CharacterSpacingMode ->
                        [m EXCEPT !.spacing.charSpacing =
                            adjustSpacing(@, direction, MinCharSpacing, MaxCharSpacing)]
                  [] m.spacing.mode = WordSpacingMode ->
                        [m EXCEPT !.spacing.wordSpacing =
                            adjustSpacing(@, direction, MinWordSpacing, MaxWordSpacing)]
                  [] m.spacing.mode = LineSpacingMode ->
                        [m EXCEPT !.spacing.lineSpacing =
                            adjustSpacing(@, direction, MinLineSpacing, MaxLineSpacing)]
                  [] OTHER -> m)
    ELSE m

handleColorPanelUpdate(m, key) ==
    IF isUpKey(key) \/ isDownKey(key)
    THEN LET direction == IF isDownKey(key) THEN 1 ELSE 0 - 1
         IN  renderText(
                CASE m.color.subMode = TextColorMode ->
                        [m EXCEPT !.color.textColor =
                            (@ + direction + Len(colorOptions)) % Len(colorOptions)]
                  [] m.color.subMode = GradientColorMode ->
                        LET gradientColor ==
                                (m.color.gradientColor + direction + Len(colorOptions))
                                    % Len(colorOptions)
                        IN  [m EXCEPT !.color.gradientColor = gradientColor,
                                      !.color.gradientEnabled = (gradientColor # m.color.textColor)]
                  [] m.color.subMode = GradientDirectionMode ->
                        LET newIndex == TruncRem(m.color.gradientDirection + direction,
                                                 TotalGradientDirections)
                        IN  [m EXCEPT !.color.gradientDirection =
                                IF newIndex < 0 THEN newIndex + TotalGradientDirections
                                ELSE newIndex]
                  [] OTHER -> m)
    ELSE m

handleScalePanelUpdate(m, key) ==
    updateShadowWarning(
        IF isUpKey(key)
        THEN IF m.scale.scale < MaxScale
             THEN renderText([m EXCEPT !.scale.scale = @ + 1])
             ELSE m
        ELSE IF isDownKey(key)
        THEN IF m.scale.scale > MinScale
             THEN renderText([m EXCEPT !.scale.scale = @ - 1])
             ELSE m
        ELSE m)

handleHorizontalShadow(m, direction) ==
    LET index == IF isUpKey(direction)
                 THEN (m.shadow.horizontalIndex + 1) % Len(shadowPixelOptions)
                 ELSE (m.shadow.horizontalIndex - 1 + Len(shadowPixelOptions))
                          % Len(shadowPixelOptions)
        offset == At(shadowPixelOptions, index)
    IN  [m EXCEPT !.shadow.horizontalIndex = index,
                  !.shadow.horizontalOffset = offset,
                  !.shadow.enabled = (offset # 0 \/ m.shadow.verticalOffset # 0)]

handleVerticalShadow(m, direction) ==
    LET index == IF isUpKey(direction)
                 THEN (m.shadow.verticalIndex + 1) % Len(verticalShadowPixelOptions)
                 ELSE (m.shadow.verticalIndex - 1 + Len(verticalShadowPixelOptions))
                          % Len(verticalShadowPixelOptions)
        offset == At(verticalShadowPixelOptions, index)
    IN  [m EXCEPT !.shadow.verticalIndex = index,
                  !.shadow.verticalOffset = offset,
                  !.shadow.enabled = (m.shadow.horizontalOffset # 0 \/ offset # 0)]

handleShadowStyle(m, direction) ==
    [m EXCEPT !.shadow.style =
        IF isUpKey(direction)
        THEN (@ + 1) % Len(shadowStyleOptions)
        ELSE (@ - 1 + Len(shadowStyleOptions)) % Len(shadowStyleOptions)]

handleShadowPanelUpdate(m, key) ==
    IF isUpKey(key) \/ isDownKey(key)
    THEN updateShadowWarning(renderText(
            CASE m.shadow.subMode = HorizontalShadowMode -> handleHorizontalShadow(m, key)
              [] m.shadow.subMode = VerticalShadowMode   -> handleVerticalShadow(m, key)
              [] m.shadow.subMode = ShadowStyleMode      -> handleShadowStyle(m, key)
              [] OTHER -> m))
    ELSE m

\* handleRandomize; rnd holds the values rand.IntN returns
handleRandomize(m, rnd) ==
    renderText(updateShadowWarning(
        [m EXCEPT !.font.selectedFont = rnd.font,
                  !.color.textColor = rnd.textColor,
                  !.color.gradientColor = rnd.gradientColor,
                  !.color.gradientEnabled = (rnd.gradientColor # rnd.textColor),
                  !.color.gradientDirection = rnd.gradientDirection]))

handleEnterExportMode(m) == [m EXCEPT !.export.active = TRUE]

handlePanelNavigation(m, direction) ==
    IF m.uiState.focusedPanel = TextInputPanel /\ m.textInput.input.focused
    THEN m
    ELSE [m EXCEPT !.uiState.focusedPanel =
                        IF direction > 0 THEN (@ + 1) % TotalPanels
                        ELSE (@ - 1 + TotalPanels) % TotalPanels,
                   !.textInput.input.focused = FALSE]

handleTabKey(m) ==
    CASE m.uiState.focusedPanel = TextInputPanel ->
            [m EXCEPT !.textInput.mode = (@ + 1) % TotalTextInputModes,
                      !.textInput.input.focused = FALSE]
      [] m.uiState.focusedPanel = SpacingPanel ->
            [m EXCEPT !.spacing.mode = (@ + 1) % TotalSpacingModes]
      [] m.uiState.focusedPanel = ColorPanel ->
            [m EXCEPT !.color.subMode = (@ + 1) % TotalColorSubModes]
      [] m.uiState.focusedPanel = ShadowPanel ->
            [m EXCEPT !.shadow.subMode = (@ + 1) % TotalShadowSubModes]
      [] OTHER ->
            [m EXCEPT !.uiState.focusedPanel = (@ + 1) % TotalPanels,
                      !.textInput.input.focused = FALSE]

handleUpDownKeys(m, key) ==
    CASE m.uiState.focusedPanel = TextInputPanel -> handleTextPanelUpdate(m, key)
      [] m.uiState.focusedPanel = FontPanel      -> handleFontPanelUpdate(m, key)
      [] m.uiState.focusedPanel = SpacingPanel   -> handleSpacingPanelUpdate(m, key)
      [] m.uiState.focusedPanel = ColorPanel     -> handleColorPanelUpdate(m, key)
      [] m.uiState.focusedPanel = ScalePanel     -> handleScalePanelUpdate(m, key)
      [] m.uiState.focusedPanel = ShadowPanel    -> handleShadowPanelUpdate(m, key)
      [] OTHER -> m

handleEnterKey(m) ==
    IF m.uiState.focusedPanel = TextInputPanel /\ m.textInput.mode = TextEntryMode
    THEN handleTextInputToggle(m)
    ELSE m

\* the "shift+tab" case of handleNormalModeKeys and handleInputModeKeys
shiftTab(m) ==
    [m EXCEPT !.uiState.focusedPanel = (@ - 1 + TotalPanels) % TotalPanels,
              !.textInput.input.focused = FALSE]

handleInputModeKeys(m, key) ==
    CASE key = "tab"             -> handleTabKey(m)
      [] key = "shift+tab"       -> shiftTab(m)
      [] key = "left"            -> handlePanelNavigation(m, 0 - 1)
      [] key = "right"           -> handlePanelNavigation(m, 1)
      [] key \in {"up", "down"}  -> handleUpDownKeys(m, key)
      [] key = "enter"           -> handleEnterKey(m)
      [] OTHER ->
            IF m.textInput.input.focused
            THEN [m EXCEPT !.textInput.input = TypeInto(@, key)]
            ELSE m

handleNormalModeKeys(m, key, rnd) ==
    CASE key = "tab"                      -> handleTabKey(m)
      [] key = "shift+tab"                -> shiftTab(m)
      [] key \in {"left", "h"}            -> handlePanelNavigation(m, 0 - 1)
      [] key \in {"right", "l"}           -> handlePanelNavigation(m, 1)
      [] key \in {"up", "down", "k", "j"} -> handleUpDownKeys(m, key)
      [] key = "enter"                    -> handleEnterKey(m)
      [] key = "e"                        -> handleEnterExportMode(m)
      [] key = "r"                        -> handleRandomize(m, rnd)
      [] OTHER ->
            IF m.textInput.input.focused
            THEN [m EXCEPT !.textInput.input = TypeInto(@, key)]
            ELSE m

\* handleExportModeKeys on what the model keeps of the export mode: "esc"
\* leaves it, "enter" leaves it when a file name was typed and no overwrite
\* prompt opens (leaves tells which), the other keys edit the file name or
\* the format
handleExportModeKeys(m, key, leaves) ==
    CASE key = "esc"   -> [m EXCEPT !.export.active = FALSE]
      [] key = "enter" -> [m EXCEPT !.export.active = ~leaves]
      [] OTHER         -> m

\* model.Update for a key message, outside the favorites mode
Update(m, key, rnd, leaves) ==
    IF m.export.active
    THEN handleExportModeKeys(m, key, leaves)
    ELSE LET reset == resetConfirmations(m)
         IN  IF ~isInputMode(reset)
             THEN handleNormalModeKeys(reset, key, rnd)
             ELSE handleInputModeKeys(reset, key)

\* the number of bytes of the longest default name of a favorite
DefaultNameBytes == 20

RECURSIVE PrefixBytes(_, _)
\* str[:n] for a byte count n: the characters that fit whole, and the first
\* byte of a two-byte character cut in the middle
PrefixBytes(str, n) ==
    IF Len(str) = 0 \/ n <= 0 THEN <<>>
    ELSE IF Utf8Len(Head(str)) <= n
         THEN <<Head(str)>> \o PrefixBytes(Tail(str), n - Utf8Len(Head(str)))
         ELSE <<InvalidByte>>

\* strings.ReplaceAll(str, "\n", " ")
ReplaceNewlines(str) == [i \in DOMAIN str |-> IF str[i] = NL THEN " " ELSE str[i]]

handleEnterFavoritesMode(m) ==
    [m EXCEPT !.favorites.active = TRUE,
              !.favorites.showNamePrompt = FALSE,
              !.favorites.selectedIndex = 0,
              !.favorites.nameInput.focused = FALSE]

createFavoriteFromCurrentState(m, name) ==
    [ID |-> <<>>,
     Name |-> name,
     CreatedAt |-> 0,
     Text |-> m.textInput.currentText,
     FontName |-> IF Len(UIFonts) > 0 /\ m.font.selectedFont < Len(UIFonts)
                  THEN At(UIFonts, m.font.selectedFont).Name ELSE "",
     Alignment |-> m.textInput.alignment,
     CharSpacing |-> m.spacing.charSpacing,
     WordSpacing |-> m.spacing.wordSpacing,
     LineSpacing |-> m.spacing.lineSpacing,
     TextColor |-> m.color.textColor,
     GradientEnabled |-> m.color.gradientEnabled,
     GradientColor |-> m.color.gradientColor,
     GradientDirection |-> m.color.gradientDirection,
     Scale |-> m.scale.scale,
     ShadowEnabled |-> m.shadow.enabled,
     ShadowHOffset |-> m.shadow.horizontalOffset,
     ShadowVOffset |-> m.shadow.verticalOffset,
     ShadowStyle |-> m.shadow.style]

\* the Go index of the first option with the given Pixels, 0 when none has it
findShadowPixelIndex(value, pixelOptions) ==
    IF \E i \in 1..Len(pixelOptions) : pixelOptions[i] = value
    THEN (CHOOSE i \in 1..Len(pixelOptions) :
            pixelOptions[i] = value /\ \A j \in 1..(i - 1) : pixelOptions[j] # value) - 1
    ELSE 0

loadFavorite(m, fav) ==
    LET found == {i \in 1..Len(UIFonts) : UIFonts[i].Name = fav.FontName}
    IN  renderText(
            [m EXCEPT !.textInput.currentText = fav.Text,
                      !.textInput.textRows = Split(fav.Text),
                      !.textInput.currentRow = 0,
                      !.textInput.alignment = fav.Alignment,
                      !.font.selectedFont = IF found # {} THEN SetMin(found) - 1
                                            ELSE IF Len(UIFonts) > 0 THEN 0 ELSE @,
                      !.spacing.charSpacing = fav.CharSpacing,
                      !.spacing.wordSpacing = fav.WordSpacing,
                      !.spacing.lineSpacing = fav.LineSpacing,
                      !.color.textColor = fav.TextColor,
                      !.color.gradientEnabled = fav.GradientEnabled,
                      !.color.gradientColor = fav.GradientColor,
                      !.color.gradientDirection = fav.GradientDirection,
                      !.scale.scale = fav.Scale,
                      !.shadow.enabled = fav.ShadowEnabled,
                      !.shadow.horizontalOffset = fav.ShadowHOffset,
                      !.shadow.verticalOffset = fav.ShadowVOffset,
                      !.shadow.style = fav.ShadowStyle,
                      !.shadow.horizontalIndex =
                            findShadowPixelIndex(fav.ShadowHOffset, shadowPixelOptions),
                      !.shadow.verticalIndex =
                            findShadowPixelIndex(fav.ShadowVOffset, verticalShadowPixelOptions)])

\* handleFavoritesNamePromptKeys; the result holds the model, the Manager's
\* list and the file
handleFavoritesNamePromptKeys(m, favs, file, key, now, outcome) ==
    CASE key = "esc" ->
            [m |-> [m EXCEPT !.favorites.showNamePrompt = FALSE,
                             !.favorites.nameInput.focused = FALSE],
             store |-> favs, disk |-> file]
      [] key = "enter" ->
            LET typed == m.favorites.nameInput.value
                name  == IF typed = <<>>
                         THEN ReplaceNewlines(
                                IF ByteLen(m.textInput.currentText) > DefaultNameBytes
                                THEN PrefixBytes(m.textInput.currentText, DefaultNameBytes)
                                ELSE m.textInput.currentText)
                         ELSE typed
                r     == Add(favs, file, createFavoriteFromCurrentState(m, name), now, now, outcome)
            IN  [m |-> [m EXCEPT !.favorites.showNamePrompt = FALSE,
                                 !.favorites.nameInput.focused = FALSE],
                 store |-> r.store, disk |-> r.disk]
      [] OTHER ->
            [m |-> [m EXCEPT !.favorites.nameInput = TypeInto(@, key)],
             store |-> favs, disk |-> file]

handleFavoritesModeKeys(m, favs, file, key, now, outcome) ==
    IF m.favorites.showNamePrompt
    THEN handleFavoritesNamePromptKeys(m, favs, file, key, now, outcome)
    ELSE LET favList == List(favs)
             sel     == m.favorites.selectedIndex
             same    == [m |-> m, store |-> favs, disk |-> file]
         IN  CASE key = "esc" -> [same EXCEPT !.m.favorites.active = FALSE]
               [] key = "s" ->
                    [same EXCEPT !.m.favorites.showNamePrompt = TRUE,
                                 !.m.favorites.nameInput = [focused |-> TRUE, value |-> <<>>]]
               [] key = "up" ->
                    IF Len(favList) > 0 /\ sel > 0
                    THEN [same EXCEPT !.m.favorites.selectedIndex = sel - 1] ELSE same
               [] key = "down" ->
                    IF Len(favList) > 0 /\ sel < Len(favList) - 1
                    THEN [same EXCEPT !.m.favorites.selectedIndex = sel + 1] ELSE same
               [] key = "enter" ->
                    IF Len(favList) > 0 /\ sel < Len(favList)
                    THEN [same EXCEPT !.m = [loadFavorite(m, At(favList, sel))
                                                EXCEPT !.favorites.active = FALSE]]
                    ELSE same
               [] key \in {"d", "backspace", "delete"} ->
                    IF Len(favList) > 0 /\ sel < Len(favList)
                    THEN LET r == Remove(favs, file, At(favList, sel).ID, outcome)
                         IN  [m |-> IF r.err = ErrNil /\ sel >= Len(r.store) /\ sel > 0
                                    THEN [m EXCEPT !.favorites.selectedIndex = sel - 1] ELSE m,
                              store |-> r.store, disk |-> r.disk]
                    ELSE same
               [] OTHER -> same

----------------------------------------------------------------------------
(* SpecUI: key messages delivered to model.Update                          *)

\* largest number of key messages
MaxKeys == 5

\* the color indices rand.IntN returns in handleRandomize
RandomColors == {6, 7}

RandomChoices ==
    [font : 0..(Len(UIFonts) - 1), textColor : RandomColors, gradientColor : RandomColors,
     gradientDirection : {UpDown, LeftRight}]

NoRandom == [font |-> 0, textColor |-> 0, gradientColor |-> 0, gradientDirection |-> 0]

InitUIOther ==
    /\ InitNoSecondManagerNoExport
    /\ opts = <<>>
    /\ verr = "none"
    /\ glyphA = <<>>
    /\ glyphB = <<>>
    /\ kern = <<>>
    /\ text = <<>>
    /\ fontData = <<>>
    /\ options = <<>>
    /\ status = "idle"
    /\ rendered = <<>>
    /\ rangeOrder = <<>>
    /\ renderedAgain = <<>>

\* InitialModel, and NewManager with no favorites file yet
InitUI ==
    /\ ui = [m |-> InitialModel, keys |-> 0, key |-> "none"]
    /\ disk = NoFile
    /\ store = Load(NoFile).favorites
    /\ clock = 0
    /\ ret = <<>>
    /\ added = <<>>
    /\ InitUIOther

\* Update(tea.KeyMsg) outside the favorites mode
Press(key, rnd, leaves) ==
    /\ ~ui.m.favorites.active
    /\ ui' = [m |-> Update(ui.m, key, rnd, leaves), keys |-> ui.keys + 1, key |-> key]
    /\ UNCHANGED <<twoVars, exportVars, validateVars, kernVars, renderVars, favVars>>

\* Update(tea.KeyMsg) in the favorites mode; two Adds are further apart
\* than the resolution of the clock
PressInFavorites(key) ==
    /\ ui.m.favorites.active
    /\ \E outcome \in SaveOutcomes :
          LET r == handleFavoritesModeKeys(ui.m, store, disk, key, clock + 1, outcome)
          IN  /\ ui' = [m |-> r.m, keys |-> ui.keys + 1, key |-> key]
              /\ store' = r.store
              /\ disk' = r.disk
    /\ clock' = clock + 1
    /\ UNCHANGED <<twoVars, exportVars, validateVars, kernVars, renderVars, ret, added>>

PressTab == ui.keys < MaxKeys /\ Press("tab", NoRandom, FALSE)

PressShiftTab == ui.keys < MaxKeys /\ Press("shift+tab", NoRandom, FALSE)

PressLeft == ui.keys < MaxKeys /\ Press("left", NoRandom, FALSE)

PressRight == ui.keys < MaxKeys /\ Press("right", NoRandom, FALSE)

PressUp == ui.keys < MaxKeys /\ Press("up", NoRandom, FALSE)

PressDown == ui.keys < MaxKeys /\ Press("down", NoRandom, FALSE)

PressEnter == ui.keys < MaxKeys /\ \E leaves \in BOOLEAN : Press("enter", NoRandom, leaves)

\* "esc" quits the program outside the export mode
PressEsc == ui.keys < MaxKeys /\ ui.m.export.active /\ Press("esc", NoRandom, FALSE)

\* the letter "a", typed into the focused input and bound to nothing
PressLetter == ui.keys < MaxKeys /\ Press("a", NoRandom, FALSE)

\* "e" and "r" as commands (typed into a focused text input they are letters)
PressE == ui.keys < MaxKeys /\ ~ui.m.textInput.input.focused /\ Press("e", NoRandom, FALSE)

PressR ==
    ui.keys < MaxKeys /\ ~ui.m.textInput.input.focused
    /\ \E rnd \in RandomChoices : Press("r", rnd, FALSE)

\* the key that opens the favorites mode
PressFavorites ==
    /\ ui.keys < MaxKeys
    /\ ~ui.m.favorites.active /\ ~ui.m.export.active /\ ~isInputMode(ui.m)
    /\ ui' = [m |-> handleEnterFavoritesMode(resetConfirmations(ui.m)),
              keys |-> ui.keys + 1, key |-> "favorites"]
    /\ UNCHANGED <<twoVars, exportVars, validateVars, kernVars, renderVars, favVars>>

FavoritesEsc == ui.keys < MaxKeys /\ PressInFavorites("esc")

FavoritesSave == ui.keys < MaxKeys /\ PressInFavorites("s")

FavoritesUp == ui.keys < MaxKeys /\ PressInFavorites("up")

FavoritesDown == ui.keys < MaxKeys /\ PressInFavorites("down")

FavoritesEnter == ui.keys < MaxKeys /\ PressInFavorites("enter")

FavoritesDelete == ui.keys < MaxKeys /\ PressInFavorites("d")

\* a letter typed into the name prompt
FavoritesLetter == ui.keys < MaxKeys /\ PressInFavorites("a")

NextUI ==
    \/ PressTab \/ PressShiftTab \/ PressLeft \/ PressRight \/ PressUp \/ PressDown
    \/ PressEnter \/ PressEsc \/ PressLetter \/ PressE \/ PressR \/ PressFavorites
    \/ FavoritesEsc \/ FavoritesSave \/ FavoritesUp \/ FavoritesDown \/ FavoritesEnter
    \/ FavoritesDelete \/ FavoritesLetter

SpecUI == InitUI /\ [][NextUI]_vars

----------------------------------------------------------------------------
(* C14: after every key event the gradient is enabled exactly when Text    *)
(* Color 2 differs from Text Color 1, and the color panel shows "None" for *)
(* Text Color 2 exactly when the two are the same.                         *)
C14_GradientEnabledIffColorsDiffer ==
    ui.keys > 0 =>
        /\ ui.m.color.gradientEnabled <=> (ui.m.color.gradientColor # ui.m.color.textColor)
        /\ ui.m.color.subMode = GradientColorMode =>
              (colorContent(ui.m) = "None" <=> ui.m.color.gradientColor = ui.m.color.textColor)

(* C15: after every key event, shadow enabled with a nonzero offset on a   *)
(* text, font and scale that use half-pixel characters has the title-bar   *)
(* warning flag set.                                                       *)
C15_WarningWheneverShadowOnHalfPixels ==
    (/\ ui.keys > 0
     /\ ui.m.shadow.enabled
     /\ (ui.m.shadow.horizontalOffset # 0 \/ ui.m.shadow.verticalOffset # 0)
     /\ hasHalfPixels(ui.m))
    => ui.m.shadow.showWarning

----------------------------------------------------------------------------
(* SpecFavorites: a caller of the favorites Manager                        *)

\* largest number of calls of Add
MaxAdds == 2

\* the names the caller gives its favorites: a plain one, and one that a
\* byte slice cut in the middle of a two-byte character
FavoriteNames == {<<"a">>, <<"a", InvalidByte>>}

\* the favorite of the n-th call of Add; its Text tells the favorites apart
NthFavorite(n, name) ==
    [createFavoriteFromCurrentState(InitialModel, name) EXCEPT !.Text = Repeat("t", n)]

\* an ID no favorite has
UnknownID == <<"nonexistent">>

\* the value of ret before the first call
NoCall ==
    [op |-> "none", id |-> <<>>, err |-> ErrNil, fav |-> <<>>, list |-> <<>>,
     storeBefore |-> <<>>, diskBefore |-> NoFile, adds |-> 0, clean |-> TRUE]

\* NewManager with no favorites file yet
InitFavorites ==
    /\ disk = NoFile
    /\ store = Load(NoFile).favorites
    /\ clock = 1
    /\ ret = NoCall
    /\ added = <<>>
    /\ ui = <<>>
    /\ InitUIOther

\* id, err := m.Add(fav); the clock may stand still between two readings
CallAdd ==
    /\ ret.adds < MaxAdds
    /\ \E name \in FavoriteNames : \E nowID \in {clock, clock + 1} :
       \E nowCreated \in {nowID, nowID + 1} : \E outcome \in SaveOutcomes :
          LET fav == NthFavorite(ret.adds + 1, name)
              r   == Add(store, disk, fav, nowID, nowCreated, outcome)
          IN  /\ store' = r.store
              /\ disk' = r.disk
              /\ clock' = nowCreated
              /\ ret' = [NoCall EXCEPT !.op = "Add", !.id = r.id, !.err = r.err, !.fav = fav,
                                       !.storeBefore = store, !.diskBefore = disk,
                                       !.adds = ret.adds + 1,
                                       !.clean = ret.clean /\ r.err = ErrNil]
              /\ added' = IF r.err = ErrNil
                          THEN Append(added, [ID |-> r.id, Text |-> fav.Text])
                          ELSE added
    /\ UNCHANGED <<twoVars, exportVars, validateVars, kernVars, renderVars, uiVars>>

\* the favorites the caller still expects after it removed the j-th of them
WithoutNth(seq, j) == SubSeq(seq, 1, j - 1) \o SubSeq(seq, j + 1, Len(seq))

\* err := m.Remove(id), with the ID Add returned for a favorite (the j-th
\* the caller still has) or with an unknown ID (j = 0)
CallRemove ==
    /\ \E j \in 0..Len(added) : \E outcome \in SaveOutcomes :
          LET id == IF j = 0 THEN UnknownID ELSE added[j].ID
              r  == Remove(store, disk, id, outcome)
          IN  /\ store' = r.store
              /\ disk' = r.disk
              /\ ret' = [NoCall EXCEPT !.op = "Remove", !.id = id, !.err = r.err,
                                       !.storeBefore = store, !.diskBefore = disk,
                                       !.adds = ret.adds,
                                       !.clean = ret.clean /\ (j = 0 \/ r.err = ErrNil)]
              /\ added' = IF r.err = ErrNil /\ j > 0 THEN WithoutNth(added, j) ELSE added
    /\ UNCHANGED <<twoVars, exportVars, validateVars, kernVars, renderVars, uiVars, clock>>

\* fav, err := m.Get(id)
CallGet ==
    /\ \E j \in 0..Len(added) :
          LET id == IF j = 0 THEN UnknownID ELSE added[j].ID
              r  == Get(store, id)
          IN  ret' = [NoCall EXCEPT !.op = "Get", !.id = id, !.err = r.err, !.fav = r.fav,
                                    !.storeBefore = store, !.diskBefore = disk,
                                    !.adds = ret.adds, !.clean = ret.clean]
    /\ UNCHANGED <<twoVars, exportVars, validateVars, kernVars, renderVars, uiVars, store, disk, clock, added>>

\* m.List()
CallList ==
    /\ ret' = [NoCall EXCEPT !.op = "List", !.list = List(store),
                             !.adds = ret.adds, !.clean = ret.clean]
    /\ UNCHANGED <<twoVars, exportVars, validateVars, kernVars, renderVars, uiVars, store, disk, clock, added>>

\* m, err = NewManager(): the program starts again and loads the file (the
\* old Manager stays when Load fails)
CallNewManager ==
    /\ LET l == Load(disk)
       IN  /\ store' = IF l.err = ErrNil THEN l.favorites ELSE store
           /\ ret' = [NoCall EXCEPT !.op = "NewManager", !.err = l.err, !.list = l.favorites,
                                    !.adds = ret.adds, !.clean = ret.clean]
    /\ UNCHANGED <<twoVars, exportVars, validateVars, kernVars, renderVars, uiVars, disk, clock, added>>

NextFavorites == CallAdd \/ CallRemove \/ CallGet \/ CallList \/ CallNewManager

SpecFavorites == InitFavorites /\ [][NextFavorites]_vars

(* C16: after every successful Add or Remove the store on disk equals the  *)
(* manager's list, so that a Manager created afterwards lists exactly      *)
(* those favorites.                                                        *)
C16_DiskEqualsMemoryAfterSuccess ==
    (ret.op \in {"Add", "Remove"} /\ ret.err = ErrNil)
    => (Load(disk).err = ErrNil /\ List(Load(disk).favorites) = List(store))

(* C17: Add returns a non-empty ID, stores the favorite under that ID and  *)
(* appends it at the end; after successful Adds and Removes, List returns  *)
(* the remaining favorites in the order in which they were added.          *)
C17_AddStoresUnderItsIDInOrder ==
    ret.clean =>
        /\ ret.op = "Add" =>
              /\ ret.id # <<>>
              /\ store[Len(store)].ID = ret.id
              /\ store[Len(store)].Text = ret.fav.Text
        /\ \A j \in 1..Len(added) :
              /\ Get(store, added[j].ID).err = ErrNil
              /\ Get(store, added[j].ID).fav.Text = added[j].Text
        /\ [i \in 1..Len(List(store)) |-> List(store)[i].Text]
              = [j \in 1..Len(added) |-> added[j].Text]

\* the IDs of a list of favorites
IDsOf(favs) == {favs[i].ID : i \in 1..Len(favs)}

(* C18: Get and Remove with an ID that no stored favorite has return       *)
(* ErrNotFound and leave the in-memory list and the file unchanged.        *)
C18_UnknownIDIsNotFound ==
    (ret.op \in {"Get", "Remove"} /\ ret.id \notin IDsOf(ret.storeBefore))
    => (ret.err = ErrNotFound /\ store = ret.storeBefore /\ disk = ret.diskBefore)

\* Remove was called with an unknown ID on a Manager that holds a favorite
\* and has written its file
C18_Witness ==
    /\ ret.op = "Remove"
    /\ ret.id \notin IDsOf(ret.storeBefore)
    /\ Len(ret.storeBefore) > 0
    /\ ret.diskBefore.state = "json"

----------------------------------------------------------------------------
(* Properties of the placement and of the advance, checked under           *)
(* SpecCompose                                                             *)

\* placing the fragment at renderXOffset writes an ink character onto a
\* cell of lineRunes that holds a non-space character
WritesInkOntoInk(lineRunes, fragment, renderXOffset) ==
    \E fragIdx \in 0..(Len(fragment) - 1) :
        LET targetPos == renderXOffset + fragIdx
        IN  /\ targetPos >= 0
            /\ targetPos < Len(lineRunes)
            /\ fragment[fragIdx + 1] # " "
            /\ lineRunes[targetPos + 1] # " "

RECURSIVE OverwritesFrom(_, _, _, _, _, _, _)
\* the second pass from character idx on writes ink onto ink
OverwritesFrom(runes, idx, i, G, P2, wordSpacing, st) ==
    IF idx > Len(runes) THEN FALSE
    ELSE LET currentXOffset2 == P2[idx] + st.err2
             renderXOffset == Round2(currentXOffset2)
             fragment == Fragment(runes, idx, i, G, wordSpacing)
         IN  \/ WritesInkOntoInk(st.line, fragment, renderXOffset)
             \/ OverwritesFrom(runes, idx + 1, i, G, P2, wordSpacing,
                               [line |-> PlaceFragment(st.line, fragment, renderXOffset),
                                err2 |-> st.err2 + (currentXOffset2 - 2 * renderXOffset)])

\* composing the line writes ink onto ink on some output row
ComposeOverwritesInk(txt, fd, baseCharSpacing, wordSpacing, scaleFactor) ==
    LET G == [idx \in 1..Len(txt) |-> ResolveGlyph(txt[idx], fd, scaleFactor)]
        K == [idx \in 1..(Len(txt) - 1) |->
                 KerningCache(txt, txt[idx], txt[idx + 1], fd, scaleFactor)]
    IN  \E r \in 1..MaxCharHeight(fd, scaleFactor) :
            LET P2 == [idx \in 1..Len(txt) |->
                          StartPosition2(txt, idx, r - 1, G, K, baseCharSpacing, wordSpacing)]
            IN  OverwritesFrom(txt, 1, r - 1, G, P2, wordSpacing, [line |-> <<>>, err2 |-> 0])

(* C19: while a line is composed, a glyph's ink character never overwrites *)
(* a non-space character that an earlier glyph placed at the same cell.    *)
C19_InkNeverOverwritesInk ==
    status = "ok" =>
        ~ComposeOverwritesInk(text, fontData, options.CharSpacing, options.WordSpacing,
                              options.ScaleFactor)

\* the doubled advance from the start of txt[idx - 1] to the start of
\* txt[idx] on output row i, as the first pass computes it
ComposedAdvance2(txt, fd, idx, i, baseCharSpacing, wordSpacing, scaleFactor) ==
    LET G == [k \in 1..Len(txt) |-> ResolveGlyph(txt[k], fd, scaleFactor)]
        K == [k \in 1..(Len(txt) - 1) |->
                 KerningCache(txt, txt[k], txt[k + 1], fd, scaleFactor)]
    IN  StartPosition2(txt, idx, i, G, K, baseCharSpacing, wordSpacing)
        - StartPosition2(txt, idx - 1, i, G, K, baseCharSpacing, wordSpacing)

\* the doubled advance of the claim: the left glyph's width, the kerning of
\* the two glyphs, the base character spacing, and the half column of the
\* parity correction where it applies
KernedAdvance2(txt, fd, idx, i, baseCharSpacing, scaleFactor) ==
    LET L == ResolveGlyph(txt[idx - 1], fd, scaleFactor)
        R == ResolveGlyph(txt[idx], fd, scaleFactor)
    IN  2 * L.width + 2 * computeKerning(L.bitmap, R.bitmap) + 2 * baseCharSpacing
        + (IF (L.height - R.height) % 2 # 0 /\ i >= R.height THEN 1 ELSE 0)

\* txt[idx - 1] and txt[idx] are non-space characters with glyphs in the font
IsGlyphPair(txt, fd, idx) ==
    /\ txt[idx - 1] # " " /\ txt[idx] # " "
    /\ txt[idx - 1] \in FontChars(fd) /\ txt[idx] \in FontChars(fd)

(* C20: for every pair of adjacent non-space characters that both have a   *)
(* glyph, wherever it stands in the line, the advance from the left        *)
(* character's start to the right one's is the left glyph's width plus     *)
(* computeKerning of the two glyphs plus the base character spacing (plus  *)
(* the half-column parity correction where it applies).                    *)
C20_AdvanceIsWidthKerningSpacing ==
    status = "ok" =>
        \A idx \in 2..Len(text) :
            IsGlyphPair(text, fontData, idx) =>
                \A i \in 0..(MaxCharHeight(fontData, options.ScaleFactor) - 1) :
                    ComposedAdvance2(text, fontData, idx, i, options.CharSpacing,
                                     options.WordSpacing, options.ScaleFactor)
                    = KernedAdvance2(text, fontData, idx, i, options.CharSpacing,
                                     options.ScaleFactor)

----------------------------------------------------------------------------
(* Rounding of the start positions, checked under SpecCompose              *)

\* the column (renderXOffset) at which the second pass places txt[idx] on
\* output row i: the doubled cumulativeError it holds on reaching idx is the
\* one the pass over txt[1..idx-1] leaves
PlacedColumnIn(txt, idx, i, G, K, baseCharSpacing, wordSpacing) ==
    LET P2 == [k \in 1..Len(txt) |->
                  StartPosition2(txt, k, i, G, K, baseCharSpacing, wordSpacing)] @@ <<>>
        before == PlaceFrom(SubSeq(txt, 1, idx - 1), 1, i, G, P2, wordSpacing,
                            [line |-> <<>>, err2 |-> 0])
    IN  [column |-> Round2(P2[idx] + before.err2), exact2 |-> P2[idx]]

\* the glyphs and the kerning cache of a line, as tables
GlyphTable(txt, fd, scaleFactor) ==
    [k \in 1..Len(txt) |-> ResolveGlyph(txt[k], fd, scaleFactor)] @@ <<>>

KerningTable(txt, fd, scaleFactor) ==
    [k \in 1..(Len(txt) - 1) |-> KerningCache(txt, txt[k], txt[k + 1], fd, scaleFactor)] @@ <<>>

PlacedColumn(txt, fd, idx, i, baseCharSpacing, wordSpacing, scaleFactor) ==
    PlacedColumnIn(txt, idx, i, GlyphTable(txt, fd, scaleFactor),
                   KerningTable(txt, fd, scaleFactor), baseCharSpacing, wordSpacing)

(* C21: in every output row, the integer column at which a character is   *)
(* placed differs from its exact cumulative advance (charStartPositions)   *)
(* by less than one column, however long the line is.                      *)
C21_PlacedWithinOneColumnOfExact ==
    (status = "ok" /\ MaxCharHeight(fontData, options.ScaleFactor) > 0) =>
        \A idx \in 1..Len(text) :
            \A i \in 0..(MaxCharHeight(fontData, options.ScaleFactor) - 1) :
                LET p == PlacedColumn(text, fontData, idx, i, options.CharSpacing,
                                      options.WordSpacing, options.ScaleFactor)
                IN  Abs(2 * p.column - p.exact2) < 2

----------------------------------------------------------------------------
(* Word boundaries counted in characters, checked under SpecCompose        *)

\* the runs of non-space characters before and after the space at idx each
\* hold more than one character
BetweenMultiCharacterWords(txt, idx) ==
    /\ Len(getWordBeforeSpaceSequence(txt, idx)) > 1
    /\ Len(getWordAfterSpaceSequence(txt, idx)) > 1

(* C22: a space advances by 0.5 plus the word spacing if and only if the   *)
(* runs of non-space characters before and after it (further spaces        *)
(* skipped) each hold more than one character, counted in characters and   *)
(* not in bytes; otherwise it advances by 0.5 only.                        *)
C22_WordSpacingIffMultiCharacterWords ==
    (status = "ok" /\ MaxCharHeight(fontData, options.ScaleFactor) > 0) =>
        \A idx \in 1..(Len(text) - 1) :
            text[idx] = " " =>
                ComposedAdvance2(text, fontData, idx + 1, 0, options.CharSpacing,
                                 options.WordSpacing, options.ScaleFactor)
                = IF BetweenMultiCharacterWords(text, idx)
                  THEN 1 + 2 * options.WordSpacing ELSE 1

----------------------------------------------------------------------------
(* Vertical centering of short glyphs, checked under SpecCompose           *)

\* txt[idx] has a glyph with ink rows, no descender information, and fewer
\* rows than the line
IsShortGlyph(txt, fd, idx, scaleFactor) ==
    /\ txt[idx] # " "
    /\ txt[idx] \in FontChars(fd)
    /\ txt[idx] \notin DOMAIN analyzeDescenderProperties(fd, scaleFactor)
    /\ Len(FilterEmptyRows(scaleCharacter(fd.Characters[txt[idx]], scaleFactor))) > 0
    /\ ResolveGlyph(txt[idx], fd, scaleFactor).height < MaxCharHeight(fd, scaleFactor)

\* the fragment the second pass takes for txt[idx] on output row i is the
\* row of the glyph that centering puts there: bitmap row i - (H - h) / 2,
\* and nothing with ink above and below the glyph
FragmentIsCentered(txt, fd, idx, i, wordSpacing, scaleFactor) ==
    LET G == [k \in 1..Len(txt) |-> ResolveGlyph(txt[k], fd, scaleFactor)]
        h == G[idx].height
        top == (MaxCharHeight(fd, scaleFactor) - h) \div 2
        fragment == Fragment(txt, idx, i, G, wordSpacing)
    IN  IF i >= top /\ i < top + h
        THEN fragment = G[idx].bitmap[(i - top) + 1]
        ELSE \A x \in 1..Len(fragment) : fragment[x] = " "

(* C23: a glyph without descender information that has fewer rows (h) than *)
(* the line (H) is centered vertically: its first bitmap row is on output  *)
(* row floor((H - h) / 2), with blank rows above and below.                *)
C23_ShortGlyphIsCentered ==
    (status = "ok" /\ MaxCharHeight(fontData, options.ScaleFactor) > 0) =>
        \A idx \in 1..Len(text) :
            IsShortGlyph(text, fontData, idx, options.ScaleFactor) =>
                \A i \in 0..(MaxCharHeight(fontData, options.ScaleFactor) - 1) :
                    FragmentIsCentered(text, fontData, idx, i, options.WordSpacing,
                                       options.ScaleFactor)

----------------------------------------------------------------------------
(* SpecShadow: RenderTextWithFont called on one line with the shadow       *)
(* enabled, at every pair of shadow offsets that Validate accepts.         *)

ShadowTexts == {<<"a">>, <<"t">>, <<"a", "b">>, <<"c", "d">>}

InitShadow ==
    /\ text \in ShadowTexts
    /\ fontData = FontPlain
    /\ \E h \in MinShadowOffset..MaxShadowOffset : \E v \in MinShadowOffset..MaxShadowOffset :
          options = [DefaultRenderOptions EXCEPT !.ShadowEnabled = TRUE,
                                                 !.ShadowHorizontalOffset = h,
                                                 !.ShadowVerticalOffset = v]
    /\ status = "idle"
    /\ rendered = <<>>
    /\ rangeOrder = SetToSeq(FontChars(fontData))
    /\ renderedAgain = <<>>
    /\ InitRenderOther

SpecShadow == InitShadow /\ [][NextRender]_vars

\* the rune the returned rows show at canvas row cy, column cx (0-based),
\* "outside" when the rows have no such cell
RenderedAt(cy, cx) ==
    IF cy >= 0 /\ cy < Len(rendered)
    THEN IF cx >= 0 /\ cx < Len(rendered[cy + 1]) THEN rendered[cy + 1][cx + 1].ch ELSE "outside"
    ELSE "outside"

(* C24: for all shadow offsets in -5..5 on each axis the canvas is the     *)
(* plain block's bounds extended by |horizontal offset| columns and        *)
(* |vertical offset| rows, and every non-space cell of the plain block and *)
(* every shadow stamp of such a cell is inside the canvas and shown:       *)
(* nothing is clipped.                                                     *)
C24_CanvasHoldsTextAndShadow ==
    OneLineWithShadow =>
        LET plain == RenderedTextLines(<<text>>, fontData, options)[1]
            h == options.ShadowHorizontalOffset
            v == options.ShadowVerticalOffset
            offX == IF h < 0 THEN 0 - h ELSE 0
            offY == IF v < 0 THEN 0 - v ELSE 0
        IN  /\ Len(rendered) = Len(plain) + Abs(v)
            /\ \A r \in 1..Len(rendered) : Len(rendered[r]) = BlockWidth(plain) + Abs(h)
            /\ \A y \in 1..Len(plain) : \A x \in 1..Len(plain[y]) :
                  plain[y][x].ch # " " =>
                      /\ RenderedAt((y - 1) + offY, (x - 1) + offX) = plain[y][x].ch
                      /\ RenderedAt(((y - 1) + offY) + v, ((x - 1) + offX) + h)
                            \notin {" ", "outside"}

\* a two-glyph line rendered with the shadow thrown up and to the left by
\* the largest offsets, and shown
C24_Witness ==
    /\ OneLineWithShadow
    /\ text = <<"a", "b">>
    /\ options.ShadowHorizontalOffset = MinShadowOffset
    /\ options.ShadowVerticalOffset = MinShadowOffset
    /\ Len(rendered) = 7
    /\ RenderedAt(0, 0) = shadowStyleOptions[options.ShadowStyle + 1].Char

----------------------------------------------------------------------------
(* Rainbow coloring, checked under SpecRender                              *)

\* the call was made in rainbow mode on a one-line text and a usable font
OneLineRainbowCall ==
    /\ status # "idle"
    /\ Len(text) > 0
    /\ ~NoFontData(fontData)
    /\ \A k \in 1..Len(text) : text[k] # NL
    /\ options.ColorMode = Rainbow

(* C25: in rainbow mode every main-text cell has the color                 *)
(* palette[(column + row + frame / speed) mod paletteSize], an index that  *)
(* is always in 0..paletteSize-1, with the palette of the options or the   *)
(* default one, and a frame offset of 0 when the speed is zero; shadow     *)
(* cells never take a rainbow color.                                       *)
C25_RainbowIndexInPalette ==
    OneLineRainbowCall =>
        /\ status = "ok"
        /\ LET eff == EffectiveOptions(text, fontData, options)
               plain == RenderedTextLines(<<text>>, fontData, options)[1]
               offX == IF eff.ShadowEnabled /\ eff.ShadowHorizontalOffset < 0
                       THEN 0 - eff.ShadowHorizontalOffset ELSE 0
               offY == IF eff.ShadowEnabled /\ eff.ShadowVerticalOffset < 0
                       THEN 0 - eff.ShadowVerticalOffset ELSE 0
               palette == IF options.RainbowColors = <<>> THEN DefaultRainbowColors
                          ELSE options.RainbowColors
               frame == IF options.RainbowSpeed = 0 THEN 0
                        ELSE TruncDiv(options.RainbowFrame, options.RainbowSpeed)
               shadowChar == shadowStyleOptions[options.ShadowStyle + 1].Char
           IN  /\ \A y \in 1..Len(plain) : \A x \in 1..Len(plain[y]) :
                     plain[y][x].ch # " " =>
                         rendered[y + offY][x + offX].sgr
                         = hexToRGB(palette[((((x - 1) + (y - 1)) + frame) % Len(palette)) + 1])
               /\ \A r \in 1..Len(rendered) : \A k \in 1..Len(rendered[r]) :
                     rendered[r][k].ch = shadowChar =>
                         rendered[r][k].sgr = hexToRGB(options.TextColor)

----------------------------------------------------------------------------
(* Characters absent from the font, checked under SpecCompose              *)

\* the width the claim gives a character the font has no glyph for: the
\* width (longest row) of the space glyph, else of the first glyph found
\* among the fallback characters, else 4
MissingCharWidthByGlyphWidth(fd) ==
    IF " " \in FontChars(fd) /\ Len(fd.Characters[" "]) > 0
    THEN maxRowLen(fd.Characters[" "])
    ELSE LET found == {k \in 1..Len(FallbackChars) :
                          /\ FallbackChars[k] \in FontChars(fd)
                          /\ Len(fd.Characters[FallbackChars[k]]) > 0}
         IN  IF found = {} THEN 4
             ELSE maxRowLen(fd.Characters[FallbackChars[SetMin(found)]])

(* C26: a character absent from the font is laid out as a blank glyph (no  *)
(* ink on any row) as wide as the font's space glyph (its longest row) if  *)
(* the font has one, else as wide as the first glyph the font has among    *)
(* 'x', 'M', '!', else 4 columns.                                          *)
C26_MissingCharWidth ==
    (status = "ok" /\ MaxCharHeight(fontData, options.ScaleFactor) > 0) =>
        \A idx \in 1..Len(text) :
            (text[idx] # " " /\ text[idx] \notin FontChars(fontData)) =>
                LET G == [k \in 1..Len(text) |->
                             ResolveGlyph(text[k], fontData, options.ScaleFactor)]
                IN  /\ G[idx].width = MissingCharWidthByGlyphWidth(fontData)
                    /\ \A i \in 0..(MaxCharHeight(fontData, options.ScaleFactor) - 1) :
                          LET fragment == Fragment(text, idx, i, G, options.WordSpacing)
                          IN  \A x \in 1..Len(fragment) : fragment[x] = " "

----------------------------------------------------------------------------
(* Start columns across the rows of a line, checked under SpecCompose      *)

----------------------------------------------------------------------------
(* Properties of the IDs of the favorites, checked under SpecFavorites     *)

(* C28: the IDs of the stored favorites are pairwise distinct, also when   *)
(* the Adds follow each other immediately, so that Get with an ID that Add *)
(* returned returns the favorite of that Add and of no other.              *)
C28_StoredIDsArePairwiseDistinct ==
    /\ \A i, j \in 1..Len(store) : i # j => store[i].ID # store[j].ID
    /\ ret.clean =>
          \A i, j \in 1..Len(added) : i # j => added[i].ID # added[j].ID

----------------------------------------------------------------------------
(* SpecTwoManagers: two Managers (two running copies of the program) on    *)
(* one favorites file                                                      *)

\* the Managers
Managers == {1, 2}

\* m.store.Favorites of the k-th Manager
StoreOf(k) == IF k = 1 THEN store ELSE store2

\* both copies of the program start with no favorites file yet
InitTwoManagers ==
    /\ disk = NoFile
    /\ store = Load(NoFile).favorites
    /\ store2 = Load(NoFile).favorites
    /\ clock = 1
    /\ ret = NoCall
    /\ added = <<>>
    /\ ui = <<>>
    /\ export = <<>>
    /\ files = <<>>
    /\ trace = <<>>
    /\ opts = <<>>
    /\ verr = "none"
    /\ glyphA = <<>>
    /\ glyphB = <<>>
    /\ kern = <<>>
    /\ text = <<>>
    /\ fontData = <<>>
    /\ options = <<>>
    /\ status = "idle"
    /\ rendered = <<>>
    /\ rangeOrder = <<>>
    /\ renderedAgain = <<>>

\* id, err := m.Add(fav) on the k-th Manager; the clock advances between
\* two Adds, so that no two IDs are the same
AddOn(k) ==
    /\ ret.adds < MaxAdds
    /\ \E name \in FavoriteNames : \E nowCreated \in {clock + 1, clock + 2} :
       \E outcome \in SaveOutcomes :
          LET fav == NthFavorite(ret.adds + 1, name)
              r   == Add(StoreOf(k), disk, fav, clock + 1, nowCreated, outcome)
          IN  /\ store' = IF k = 1 THEN r.store ELSE store
              /\ store2' = IF k = 2 THEN r.store ELSE store2
              /\ disk' = r.disk
              /\ clock' = nowCreated
              /\ ret' = [NoCall EXCEPT !.op = "Add", !.id = r.id, !.err = r.err, !.fav = fav,
                                       !.storeBefore = StoreOf(k), !.diskBefore = disk,
                                       !.adds = ret.adds + 1,
                                       !.clean = ret.clean /\ r.err = ErrNil]
              /\ added' = IF r.err = ErrNil
                          THEN Append(added, [ID |-> r.id, Text |-> fav.Text])
                          ELSE added
    /\ UNCHANGED <<validateVars, kernVars, renderVars, uiVars, exportVars>>

\* err := m.Remove(id) on the k-th Manager, with the ID of a favorite that
\* was added (on either Manager) and not removed
RemoveOn(k) ==
    /\ \E j \in 1..Len(added) : \E outcome \in SaveOutcomes :
          LET id == added[j].ID
              r  == Remove(StoreOf(k), disk, id, outcome)
          IN  /\ store' = IF k = 1 THEN r.store ELSE store
              /\ store2' = IF k = 2 THEN r.store ELSE store2
              /\ disk' = r.disk
              /\ ret' = [NoCall EXCEPT !.op = "Remove", !.id = id, !.err = r.err,
                                       !.storeBefore = StoreOf(k), !.diskBefore = disk,
                                       !.adds = ret.adds,
                                       !.clean = ret.clean /\ r.err \in {ErrNil, ErrNotFound}]
              /\ added' = IF r.err = ErrNil THEN WithoutNth(added, j) ELSE added
    /\ UNCHANGED <<validateVars, kernVars, renderVars, uiVars, exportVars, clock>>

\* m, err = NewManager() in the k-th copy of the program: it starts again
\* and loads the file (the old Manager stays when Load fails)
NewManagerOn(k) ==
    /\ LET l == Load(disk)
       IN  /\ store' = IF k = 1 /\ l.err = ErrNil THEN l.favorites ELSE store
           /\ store2' = IF k = 2 /\ l.err = ErrNil THEN l.favorites ELSE store2
           /\ ret' = [NoCall EXCEPT !.op = "NewManager", !.err = l.err, !.list = l.favorites,
                                    !.adds = ret.adds, !.clean = ret.clean]
    /\ UNCHANGED <<validateVars, kernVars, renderVars, uiVars, exportVars, disk, clock, added>>

CallAddOn == \E k \in Managers : AddOn(k)

CallRemoveOn == \E k \in Managers : RemoveOn(k)

CallNewManagerOn == \E k \in Managers : NewManagerOn(k)

NextTwoManagers == CallAddOn \/ CallRemoveOn \/ CallNewManagerOn

SpecTwoManagers == InitTwoManagers /\ [][NextTwoManagers]_vars

(* C29: with two Managers on the same favorites file whose Adds and        *)
(* Removes interleave, no update is lost: as long as every save succeeded, *)
(* the file holds every favorite that was added and not removed.           *)
C29_NoUpdateLost ==
    ret.clean =>
        /\ Load(disk).err = ErrNil
        /\ \A j \in 1..Len(added) : added[j].ID \in IDsOf(Load(disk).favorites)

----------------------------------------------------------------------------
(* The export manager (package export); file names are sequences of        *)
(* one-character strings, a path is the name of a file in the export       *)
(* directory em.basePath                                                   *)

MaxFilenameLength == 200

FilenameInputCharLimit == 50

\* strings.ReplaceAll(s, old, new) with a one-character old
RECURSIVE ReplaceAll(_, _, _)
ReplaceAll(s, old, new) ==
    IF Len(s) = 0 THEN <<>>
    ELSE (IF Head(s) = old THEN new ELSE <<Head(s)>>) \o ReplaceAll(Tail(s), old, new)

\* the index of the last c in s, 0 when there is none
LastIndexOf(s, c) ==
    IF \E i \in 1..Len(s) : s[i] = c
    THEN CHOOSE i \in 1..Len(s) : s[i] = c /\ \A j \in (i + 1)..Len(s) : s[j] # c
    ELSE 0

\* s without the slashes at its end
RECURSIVE StripTrailingSlashes(_)
StripTrailingSlashes(s) ==
    IF Len(s) > 0 /\ s[Len(s)] = "/"
    THEN StripTrailingSlashes(SubSeq(s, 1, Len(s) - 1))
    ELSE s

\* filepath.Base
Base(path) ==
    IF Len(path) = 0 THEN <<".">>
    ELSE LET stripped == StripTrailingSlashes(path)
             last     == SubSeq(stripped, LastIndexOf(stripped, "/") + 1, Len(stripped))
         IN  IF Len(last) = 0 THEN <<"/">> ELSE last

\* filepath.Ext: from the last dot of the last element of the path
Ext(path) ==
    LET dot == LastIndexOf(path, ".")
    IN  IF dot > LastIndexOf(path, "/") THEN SubSeq(path, dot, Len(path)) ELSE <<>>

\* strings.HasSuffix
HasSuffix(s, suffix) ==
    Len(s) >= Len(suffix) /\ SubSeq(s, Len(s) - Len(suffix) + 1, Len(s)) = suffix

\* strings.TrimSuffix
TrimSuffix(s, suffix) ==
    IF HasSuffix(s, suffix) THEN SubSeq(s, 1, Len(s) - Len(suffix)) ELSE s

\* strings.Trim(s, " ")
TrimSpaces(s) ==
    IF \A i \in 1..Len(s) : s[i] = " " THEN <<>>
    ELSE SubSeq(s, CHOOSE i \in 1..Len(s) : s[i] # " " /\ \A j \in 1..(i - 1) : s[j] = " ",
                LastNot(s, " "))

\* strings.ToUpper, on the letters the file names are written with
UpperRune(c) ==
    CASE c = "a" -> "A" [] c = "c" -> "C" [] c = "g" -> "G" [] c = "h" -> "H"
      [] c = "l" -> "L" [] c = "n" -> "N" [] c = "o" -> "O" [] c = "t" -> "T"
      [] c = "x" -> "X" [] OTHER -> c

ToUpper(s) == [i \in 1..Len(s) |-> UpperRune(s[i])]

invalidChars == <<"/", ":", "*", "?", "\"", "<", ">", "|">>

\* base without the characters of invalidChars, removed one after the other
RECURSIVE RemoveInvalidChars(_, _)
RemoveInvalidChars(base, k) ==
    IF k > Len(invalidChars) THEN base
    ELSE RemoveInvalidChars(ReplaceAll(base, invalidChars[k], <<>>), k + 1)

reservedNames ==
    {<<"C", "O", "N">>, <<"P", "R", "N">>, <<"A", "U", "X">>, <<"N", "U", "L">>}
    \cup {<<"C", "O", "M", d>> : d \in {"1", "2", "3", "4", "5", "6", "7", "8", "9"}}
    \cup {<<"L", "P", "T", d>> : d \in {"1", "2", "3", "4", "5", "6", "7", "8", "9"}}

\* the truncation of a name that is longer than MaxFilenameLength
TruncateFilename(base, nameWithoutExt, ext) ==
    IF Len(ext) >= MaxFilenameLength THEN SubSeq(base, 1, MaxFilenameLength)
    ELSE IF Len(nameWithoutExt) > MaxFilenameLength - Len(ext)
         THEN SubSeq(nameWithoutExt, 1, MaxFilenameLength - Len(ext)) \o ext
         ELSE SubSeq(base, 1, MaxFilenameLength)

\* the end of SanitizeFilename: the empty name and the limit of the length
LimitFilename(base, nameWithoutExt) ==
    IF Len(base) = 0 THEN <<>>
    ELSE IF Len(base) > MaxFilenameLength
         THEN TruncateFilename(base, nameWithoutExt, Ext(base))
         ELSE base

\* the middle of SanitizeFilename: the reserved names
PrefixReserved(trimmed, nameWithoutExt) ==
    LimitFilename(IF ToUpper(nameWithoutExt) \in reservedNames
                  THEN <<"_">> \o trimmed ELSE trimmed,
                  nameWithoutExt)

\* SanitizeFilename
SanitizeFilename(filename) ==
    IF Len(filename) = 0 THEN <<>>
    ELSE PrefixReserved(
             TrimSpaces(RemoveInvalidChars(Base(ReplaceAll(filename, "\\", <<"/">>)), 1)),
             TrimSuffix(TrimSpaces(RemoveInvalidChars(Base(ReplaceAll(filename, "\\", <<"/">>)), 1)),
                        Ext(TrimSpaces(RemoveInvalidChars(Base(ReplaceAll(filename, "\\", <<"/">>)), 1)))))

SupportedFormats ==
    << [Name |-> "TXT", Extension |-> <<".", "t", "x", "t">>, IsBinary |-> FALSE],
       [Name |-> "GO",  Extension |-> <<".", "g", "o">>,      IsBinary |-> FALSE],
       [Name |-> "JS",  Extension |-> <<".", "j", "s">>,      IsBinary |-> FALSE],
       [Name |-> "PY",  Extension |-> <<".", "p", "y">>,      IsBinary |-> FALSE],
       [Name |-> "RS",  Extension |-> <<".", "r", "s">>,      IsBinary |-> FALSE],
       [Name |-> "SH",  Extension |-> <<".", "s", "h">>,      IsBinary |-> FALSE],
       [Name |-> "PNG", Extension |-> <<".", "p", "n", "g">>, IsBinary |-> TRUE] >>

\* the index of the format with the given name, 0 when there is none
FormatIndex(formatName) ==
    IF \E i \in 1..Len(SupportedFormats) : SupportedFormats[i].Name = formatName
    THEN CHOOSE i \in 1..Len(SupportedFormats) : SupportedFormats[i].Name = formatName
    ELSE 0

GetDefaultFormat == SupportedFormats[1].Name

\* the name Export and CheckFileExists make of a sanitized name and a
\* format: the extension is added to a name that does not end with it
WithExtension(sanitized, formatName) ==
    IF FormatIndex(formatName) = 0 THEN sanitized
    ELSE IF HasSuffix(sanitized, SupportedFormats[FormatIndex(formatName)].Extension)
    THEN sanitized
    ELSE sanitized \o SupportedFormats[FormatIndex(formatName)].Extension

\* os.Stat(filePath) that finds no file
ExistsNever(fs, filePath) == FALSE

\* os.Stat(filePath) returns no error; filePath is
\* filepath.Join(em.basePath, name), written as the name
Exists(fs, filePath) == filePath \in DOMAIN fs

\* the end of CheckFileExists: the call of os.Stat
StatFile(fs, final, filePath) ==
    [exists |-> Exists(fs, filePath), filename |-> final, err |-> "nil",
     stats |-> <<filePath>>]

\* ExportManager.CheckFileExists; stats are the paths it passed to os.Stat
CheckFileExists(fs, filename, formatName) ==
    IF FormatIndex(formatName) = 0
    THEN [exists |-> FALSE, filename |-> <<>>, err |-> "unsupported format", stats |-> <<>>]
    ELSE IF Len(SanitizeFilename(filename)) = 0
    THEN [exists |-> FALSE, filename |-> <<>>, err |-> "invalid filename", stats |-> <<>>]
    ELSE StatFile(fs, WithExtension(SanitizeFilename(filename), formatName),
                  Base(WithExtension(SanitizeFilename(filename), formatName)))

\* what the file system does with a call of os.WriteFile
WriteOutcomes == {"ok", "open fails"}

\* os.WriteFile(filePath, content, 0644), and the record of the call: the
\* path, whether a file was there, and whether the content was written
WriteFile(fs, filePath, content, outcome) ==
    [err   |-> IF outcome = "ok" THEN "nil" ELSE "failed to write file",
     files |-> IF outcome = "ok" THEN (filePath :> content) @@ fs ELSE fs,
     writes |-> <<[path |-> filePath, existed |-> filePath \in DOMAIN fs,
                   done |-> outcome = "ok"]>>]

\* ExportManager.Export; writes are the calls of os.WriteFile it made
Export(fs, content, filename, formatName, outcome) ==
    IF FormatIndex(formatName) = 0
    THEN [err |-> "unsupported format", files |-> fs, writes |-> <<>>]
    ELSE IF Len(SanitizeFilename(filename)) = 0
    THEN [err |-> "invalid filename", files |-> fs, writes |-> <<>>]
    ELSE WriteFile(fs, Base(WithExtension(SanitizeFilename(filename), formatName)),
                   content, outcome)

\* ExportManager.ExportBinary
ExportBinary(fs, content, filename, formatName, outcome) ==
    IF FormatIndex(formatName) # 0 /\ ~SupportedFormats[FormatIndex(formatName)].IsBinary
    THEN [err |-> "not a binary format", files |-> fs, writes |-> <<>>]
    ELSE Export(fs, content, filename, formatName, outcome)

----------------------------------------------------------------------------
(* The export mode of the UI; e is m.export, fs the export directory       *)

\* m.uiState.renderedLines
RenderedArt == <<"art">>

\* the content exportText generates for a format: that of the format's
\* generator, that of GenerateTXTCode for a format the switch does not name
GenerateCode(format, lines) ==
    IF format \in {"TXT", "GO", "JS", "PY", "RS", "SH"}
    THEN <<format>> \o lines
    ELSE <<"TXT">> \o lines

\* the buttons of the overwrite prompt
YesButton == 0

NoButton == 1

\* m.export of InitialModel
InitialExport ==
    [active |-> FALSE, format |-> GetDefaultFormat,
     filenameInput |-> [value |-> <<>>, pos |-> 0, focused |-> FALSE],
     showConfirmation |-> FALSE, confirmationText |-> <<>>,
     showOverwritePrompt |-> FALSE, overwriteFilename |-> <<>>, overwriteContent |-> <<>>,
     overwriteFormat |-> "", overwriteBinaryContent |-> <<>>, selectedButton |-> 0]

\* filenameInput.SetValue: the cursor goes to the end
SetValue(input, value) == [input EXCEPT !.value = value, !.pos = Len(value)]

\* filenameInput.Update for a key: "left" and "right" move the cursor, a
\* letter is inserted at the cursor when the limit allows one more
FilenameInputUpdate(input, key) ==
    CASE key = "left"  -> [input EXCEPT !.pos = IF input.pos > 0 THEN input.pos - 1 ELSE 0]
      [] key = "right" -> [input EXCEPT !.pos = IF input.pos < Len(input.value)
                                                THEN input.pos + 1 ELSE input.pos]
      [] key \in {"a", "h", "l"} ->
            IF Len(input.value) >= FilenameInputCharLimit THEN input
            ELSE [input EXCEPT !.value = SubSeq(input.value, 1, input.pos) \o <<key>>
                                         \o SubSeq(input.value, input.pos + 1, Len(input.value)),
                               !.pos = input.pos + 1]
      [] OTHER -> input

\* handleEnterExportMode
EnterExportMode(e) ==
    [e EXCEPT !.active = TRUE,
              !.filenameInput = SetValue([e.filenameInput EXCEPT !.focused = TRUE], <<>>)]

\* a handler that calls neither os.Stat nor os.WriteFile
NoFileCalls(e, fs) == [export |-> e, files |-> fs, stats |-> <<>>, writes |-> <<>>]

\* the end of performExport: the confirmation for the result r of Export
ConfirmExport(e, r, savedName) ==
    [export |-> [e EXCEPT !.showConfirmation = TRUE,
                          !.confirmationText = IF r.err # "nil"
                                               THEN <<"Export failed", r.err>>
                                               ELSE <<"Exported to", savedName>>],
     files |-> r.files, stats |-> <<>>, writes |-> r.writes]

\* performExport
performExport(e, fs, content, filename, formatName, outcome) ==
    ConfirmExport(e, Export(fs, content, filename, formatName, outcome),
                  WithExtension(SanitizeFilename(filename), formatName))

\* performBinaryExport
performBinaryExport(e, fs, content, filename, formatName, outcome) ==
    ConfirmExport(e, ExportBinary(fs, content, filename, formatName, outcome),
                  WithExtension(SanitizeFilename(filename), formatName))

\* the result r of a handler, with the paths that were passed to os.Stat
\* before it
WithStats(r, stats) == [r EXCEPT !.stats = stats]

\* the end of exportText, after CheckFileExists returned check
exportChecked(e, fs, content, sanitizedFilename, check, outcome) ==
    IF check.err # "nil"
    THEN [export |-> [e EXCEPT !.showConfirmation = TRUE,
                               !.confirmationText = <<"Export failed", check.err>>],
          files |-> fs, stats |-> check.stats, writes |-> <<>>]
    ELSE IF check.exists
    THEN [export |-> [e EXCEPT !.showOverwritePrompt = TRUE,
                               !.overwriteFilename = check.filename,
                               !.overwriteContent = content,
                               !.overwriteFormat = e.format,
                               !.selectedButton = NoButton],
          files |-> fs, stats |-> check.stats, writes |-> <<>>]
    ELSE WithStats(performExport(e, fs, content, sanitizedFilename, e.format, outcome),
                   check.stats)

\* the middle of exportText, after SanitizeFilename
exportSanitized(e, fs, sanitizedFilename, outcome) ==
    IF Len(sanitizedFilename) = 0
    THEN NoFileCalls([e EXCEPT !.showConfirmation = TRUE,
                               !.confirmationText = <<"Invalid filename">>], fs)
    ELSE exportChecked(e, fs, GenerateCode(e.format, RenderedArt), sanitizedFilename,
                       CheckFileExists(fs, sanitizedFilename, e.format), outcome)

\* exportText
exportText(e, fs, outcome) ==
    IF Len(e.filenameInput.value) = 0 THEN NoFileCalls(e, fs)
    ELSE exportSanitized(e, fs, SanitizeFilename(e.filenameInput.value), outcome)

\* the end of the "enter" and "esc" cases of handleOverwritePromptKeys
ClosePrompt(e, leaves) ==
    [e EXCEPT !.showOverwritePrompt = FALSE,
              !.active = IF leaves THEN FALSE ELSE e.active,
              !.filenameInput.focused = IF leaves THEN FALSE ELSE e.filenameInput.focused,
              !.overwriteBinaryContent = <<>>,
              !.overwriteContent = <<>>]

\* the "enter" case of handleOverwritePromptKeys before the prompt closes
AnswerPrompt(e, fs, outcome) ==
    IF e.selectedButton # YesButton THEN NoFileCalls(e, fs)
    ELSE IF Len(e.overwriteBinaryContent) > 0
    THEN performBinaryExport(e, fs, e.overwriteBinaryContent, e.overwriteFilename,
                             e.overwriteFormat, outcome)
    ELSE performExport(e, fs, e.overwriteContent, e.overwriteFilename, e.overwriteFormat,
                       outcome)

\* the result r of a handler, with the prompt and the export mode closed
Closed(r) == [r EXCEPT !.export = ClosePrompt(r.export, TRUE)]

\* handleOverwritePromptKeys
handleOverwritePromptKeys(e, fs, key, outcome) ==
    CASE key \in {"left", "right", "h", "l"} ->
            NoFileCalls([e EXCEPT !.selectedButton = 1 - e.selectedButton], fs)
      [] key = "enter" -> Closed(AnswerPrompt(e, fs, outcome))
      [] key = "esc" -> NoFileCalls(ClosePrompt(e, FALSE), fs)
      [] OTHER -> NoFileCalls(e, fs)

\* cycleExportFormat
cycleExportFormat(e, direction) ==
    LET n            == Len(SupportedFormats)
        currentIndex == IF FormatIndex(e.format) = 0 THEN 0 ELSE FormatIndex(e.format) - 1
        next         == IF direction > 0 THEN (currentIndex + 1) % n
                        ELSE (currentIndex - 1 + n) % n
    IN  [e EXCEPT !.format = SupportedFormats[next + 1].Name]

\* the result r of exportText, with the export mode closed unless the
\* overwrite prompt is open
LeaveUnlessPrompt(r) ==
    IF r.export.showOverwritePrompt THEN r
    ELSE [r EXCEPT !.export.active = FALSE, !.export.filenameInput.focused = FALSE]

\* handleExportModeKeys, with the file system it works on
handleExportModeKeysOn(e, fs, key, outcome) ==
    IF e.showOverwritePrompt THEN handleOverwritePromptKeys(e, fs, key, outcome)
    ELSE CASE key = "esc" ->
                 NoFileCalls([e EXCEPT !.active = FALSE, !.filenameInput.focused = FALSE], fs)
           [] key = "enter" ->
                 IF Len(e.filenameInput.value) = 0 THEN NoFileCalls(e, fs)
                 ELSE LeaveUnlessPrompt(exportText(e, fs, outcome))
           [] key = "shift+tab" -> NoFileCalls(cycleExportFormat(e, 0 - 1), fs)
           [] key = "tab" -> NoFileCalls(cycleExportFormat(e, 1), fs)
           [] OTHER ->
                 NoFileCalls([e EXCEPT !.filenameInput = FilenameInputUpdate(e.filenameInput, key)],
                             fs)

\* resetConfirmations, as far as it concerns the export
ResetExportConfirmations(e) == [e EXCEPT !.showConfirmation = FALSE, !.confirmationText = <<>>]

\* Update(tea.KeyMsg) as far as it concerns the export: the export mode
\* takes every key while it is active, and "e" opens it otherwise
UpdateExport(e, fs, key, outcome) ==
    IF e.active THEN handleExportModeKeysOn(e, fs, key, outcome)
    ELSE IF key = "e" THEN NoFileCalls(EnterExportMode(ResetExportConfirmations(e)), fs)
    ELSE NoFileCalls(ResetExportConfirmations(e), fs)

----------------------------------------------------------------------------
(* SpecExport: key events in the export mode, on an export directory       *)

\* largest number of key events
MaxExportKeys == 3

\* the file names the user has typed when the export mode is first looked at
ExportNames ==
    { <<"a">>, <<"a", ".", "t", "x", "t">>, <<"C", "O", "N">>, <<"c", "o", "n">>,
      <<" ", "a", " ">>, <<"x", "/", "a">>, <<".", ".", "/", "a">>, <<"x", "\\", "a">>,
      <<"a", ":">>, <<"*">>, <<".">> }

\* the files that may be in the export directory at the start
ExistingFiles ==
    { <<"a", ".", "t", "x", "t">>, <<"_", "C", "O", "N", ".", "t", "x", "t">> }

\* the content of a file that was in the export directory at the start
OldContent == <<"old">>

\* the value of trace before the first key event
NoKey ==
    [key |-> "none", prompt |-> FALSE, button |-> 0, stats |-> <<>>, writes |-> <<>>,
     filesBefore |-> <<>>, shownFor |-> <<>>, keys |-> 0]

\* the export mode was opened with "e" and a file name was typed
InitExport ==
    /\ \E name \in ExportNames :
          export = [EnterExportMode(InitialExport)
                       EXCEPT !.filenameInput = SetValue(@, name)]
    /\ \E present \in SUBSET ExistingFiles : files = [f \in present |-> OldContent]
    /\ trace = NoKey
    /\ store = <<>>
    /\ store2 = <<>>
    /\ disk = <<>>
    /\ clock = 0
    /\ ret = <<>>
    /\ added = <<>>
    /\ ui = <<>>
    /\ opts = <<>>
    /\ verr = "none"
    /\ glyphA = <<>>
    /\ glyphB = <<>>
    /\ kern = <<>>
    /\ text = <<>>
    /\ fontData = <<>>
    /\ options = <<>>
    /\ status = "idle"
    /\ rendered = <<>>
    /\ rangeOrder = <<>>
    /\ renderedAgain = <<>>

\* the state after a key event whose handler returned r; trace keeps what
\* the prompt was when the key came, the calls of os.Stat and os.WriteFile
\* of this key event, and the path for which the overwrite prompt was last
\* opened
AfterKey(key, r) ==
    /\ export' = r.export
    /\ files' = r.files
    /\ trace' = [key |-> key, prompt |-> export.showOverwritePrompt,
                 button |-> export.selectedButton, stats |-> r.stats,
                 writes |-> r.writes, filesBefore |-> files,
                 shownFor |-> IF ~export.showOverwritePrompt /\ r.export.showOverwritePrompt
                              THEN r.stats[1] ELSE trace.shownFor,
                 keys |-> trace.keys + 1]

\* Update(tea.KeyMsg)
ExportKey(key) ==
    /\ \E outcome \in WriteOutcomes : AfterKey(key, UpdateExport(export, files, key, outcome))
    /\ UNCHANGED <<validateVars, kernVars, renderVars, favVars, uiVars, twoVars>>

ExportEnter == trace.keys < MaxExportKeys /\ ExportKey("enter")

ExportEsc == trace.keys < MaxExportKeys /\ ExportKey("esc")

ExportTab == trace.keys < MaxExportKeys /\ ExportKey("tab")

ExportShiftTab == trace.keys < MaxExportKeys /\ ExportKey("shift+tab")

\* the keys that move the cursor of the file name and toggle the button of
\* the prompt; "h" and "l" are letters of the file name outside the prompt
ExportLeftRight ==
    trace.keys < MaxExportKeys /\ \E key \in {"left", "right", "h", "l"} : ExportKey(key)

\* a letter typed into the file name
ExportLetter == trace.keys < MaxExportKeys /\ ExportKey("a")

\* "e", which opens the export mode
ExportOpen == trace.keys < MaxExportKeys /\ ExportKey("e")

NextExport ==
    \/ ExportEnter \/ ExportEsc \/ ExportTab \/ ExportShiftTab \/ ExportLeftRight
    \/ ExportLetter \/ ExportOpen

SpecExport == InitExport /\ [][NextExport]_vars

\* the key event wrote over a file that was there
OverwroteAFile ==
    \E i \in 1..Len(trace.writes) : trace.writes[i].existed /\ trace.writes[i].done

(* C30: in export mode a file that exists at the target path is written    *)
(* over only by Enter on "Yes" in the overwrite prompt that was opened for *)
(* that path; the prompt opens with "No" selected; Esc, and Enter on "No", *)
(* write nothing and leave the files as they were; and the path that was   *)
(* checked for existence is the path that is written.                      *)
C30_OverwriteOnlyAfterYes ==
    /\ \A i \in 1..Len(trace.writes) :
          /\ trace.writes[i].existed =>
                /\ trace.prompt
                /\ trace.key = "enter"
                /\ trace.button = YesButton
                /\ trace.writes[i].path = trace.shownFor
          /\ ~trace.prompt => trace.stats = <<trace.writes[i].path>>
          /\ trace.prompt => trace.writes[i].path = trace.shownFor
    /\ (~trace.prompt /\ export.showOverwritePrompt) =>
          /\ export.selectedButton = NoButton
          /\ trace.stats = <<trace.shownFor>>
          /\ trace.shownFor \in DOMAIN files
          /\ trace.writes = <<>>
    /\ (trace.prompt /\ (trace.key = "esc" \/ (trace.key = "enter" /\ trace.button = NoButton))) =>
          /\ trace.writes = <<>>
          /\ files = trace.filesBefore
          /\ ~export.showOverwritePrompt
    /\ (~OverwroteAFile /\ trace.keys > 0) =>
          \A f \in DOMAIN trace.filesBefore :
            f \in DOMAIN files /\ files[f] = trace.filesBefore[f]

\* the user answered the prompt for a.txt with "Yes", and a.txt holds the
\* new content
C30_Witness ==
    /\ trace.prompt
    /\ trace.key = "enter"
    /\ trace.button = YesButton
    /\ OverwroteAFile
    /\ trace.shownFor = <<"a", ".", "t", "x", "t">>
    /\ files[trace.shownFor] # OldContent

====
